---- MODULE Spec2Model ----
(***************************************************************************)
(* Natural-language-to-SQL query path of the relational-store app          *)
(* (src/app.py): the rule-based translator generate_sql_from_pattern, the   *)
(* AI translator generate_sql_with_gemini with its lexical validator, and   *)
(* the request handler api_database_query, with the schema introspection   *)
(* get_database_schema; and the session cart and checkout of the            *)
(* document-store app (src/apps.py).                                        *)
(*                                                                          *)
(* A Python str is modelled as a sequence of one-character strings, so that *)
(* lower(), strip(), replace(), split(), the in substring test  and the    *)
(* regular expressions are computed character by character as Python        *)
(* computes them.                                                           *)
(***************************************************************************)
EXTENDS Integers, Sequences, FiniteSets, TLC

VARIABLES
  GEMINI_ENABLED,  \* module global set once at import (app.py 22-32)
  db_engine,       \* module global: "engine", or "None" when setup_database failed
  pc,              \* position of the request in flight
  question,        \* the question: the request body's field, then the stripped text
  model_reply,     \* what the external model does when it is called in this request
  engine_reply,    \* what the storage engine does when a query is executed in this request
  sql_query,       \* the handler's local sql_query / the translator's return value
  source,          \* the handler's local source
  calls,           \* collaborators invoked for this request, in call order
  executed,        \* the text handed to conn.execute, or None
  response,        \* the HTTP response of the request
  store,           \* the tables the storage engine holds (sqlite_master)
  client,          \* apps.py module global: "client", or "None" when MongoDB is unreachable
  session,         \* apps.py: the Flask session of one browser, a dict
  orders_col       \* apps.py: the documents of the orders collection

vars == <<GEMINI_ENABLED, db_engine, pc, question, model_reply, engine_reply,
          sql_query, source, calls, executed, response,
          store, client, session, orders_col>>

----------------------------------------------------------------------------
(* Characters and Python str operations                                     *)

\* Python None, distinct from every str (a str is a sequence of single characters)
None == <<"<None>">>

EmptyStr == << >>

LowerLetters ==
  <<"a","b","c","d","e","f","g","h","i","j","k","l","m",
    "n","o","p","q","r","s","t","u","v","w","x","y","z">>

UpperLetters ==
  <<"A","B","C","D","E","F","G","H","I","J","K","L","M",
    "N","O","P","Q","R","S","T","U","V","W","X","Y","Z">>

LowerSet == {LowerLetters[i] : i \in DOMAIN LowerLetters}

UpperSet == {UpperLetters[i] : i \in DOMAIN UpperLetters}

Digits == {"0","1","2","3","4","5","6","7","8","9"}

\* the characters the regex class \w matches
WordChars == LowerSet \cup UpperSet \cup Digits \cup {"_"}

\* the characters the regex class \s matches and str.strip() removes
SpaceChars == {" ", "\t", "\n", "\r"}

ToLower == [c \in UpperSet |-> LowerLetters[CHOOSE i \in DOMAIN UpperLetters : UpperLetters[i] = c]]

ToUpper == [c \in LowerSet |-> UpperLetters[CHOOSE i \in DOMAIN LowerLetters : LowerLetters[i] = c]]

IsDigit(c) == c \in Digits

IsWordChar(c) == c \in WordChars

IsSpace(c) == c \in SpaceChars

Min(S) == CHOOSE x \in S : \A y \in S : x <= y

Max(S) == CHOOSE x \in S : \A y \in S : x >= y

\* str.lower()
Lower(s) == [i \in 1..Len(s) |-> IF s[i] \in UpperSet THEN ToLower[s[i]] ELSE s[i]]

\* str.upper()
Upper(s) == [i \in 1..Len(s) |-> IF s[i] \in LowerSet THEN ToUpper[s[i]] ELSE s[i]]

\* str.strip()
Strip(s) ==
  LET keep == {i \in 1..Len(s) : ~IsSpace(s[i])}
  IN  IF keep = {} THEN EmptyStr ELSE SubSeq(s, Min(keep), Max(keep))

\* s[i-1:].startswith(lit), i counted from 1
StartsAt(s, i, lit) ==
  /\ i >= 1
  /\ i + Len(lit) - 1 <= Len(s)
  /\ SubSeq(s, i, i + Len(lit) - 1) = lit

\* str.startswith(lit)
StartsWith(s, lit) == StartsAt(s, 1, lit)

\* lit in s
Contains(s, lit) == \E i \in 1..(Len(s) - Len(lit) + 1) : StartsAt(s, i, lit)

\* str.replace(old, ""), leftmost non-overlapping occurrences, old non-empty
RECURSIVE Remove(_, _)
Remove(s, old) ==
  IF ~Contains(s, old) THEN s
  ELSE LET i == Min({k \in 1..Len(s) : StartsAt(s, k, old)})
       IN  SubSeq(s, 1, i - 1) \o Remove(SubSeq(s, i + Len(old), Len(s)), old)

\* str.split('\n')
RECURSIVE SplitLines(_)
SplitLines(s) ==
  IF \A i \in 1..Len(s) : s[i] # "\n" THEN <<s>>
  ELSE LET i == Min({k \in 1..Len(s) : s[k] = "\n"})
       IN  <<SubSeq(s, 1, i - 1)>> \o SplitLines(SubSeq(s, i + 1, Len(s)))

\* str.rstrip(';')
RStripSemicolon(s) ==
  LET keep == {i \in 1..Len(s) : s[i] # ";"}
  IN  IF keep = {} THEN EmptyStr ELSE SubSeq(s, 1, Max(keep))

\* Python truthiness of an Optional[str]: None and "" are falsy
Truthy(x) == x # None /\ x # EmptyStr

----------------------------------------------------------------------------
(* Regular-expression primitives (Python re, str patterns)                  *)

IsWordAt(s, i) == i >= 1 /\ i <= Len(s) /\ IsWordChar(s[i])

\* \b holds in front of character i (i = Len(s)+1: at the end of the string)
WB(s, i) == IsWordAt(s, i - 1) # IsWordAt(s, i)

\* . matches everything but a newline: .* can consume s[a..b-1]
DotStar(s, a, b) == \A k \in a..(b - 1) : s[k] # "\n"

\* \s* can consume s[a..b-1]
SpaceStar(s, a, b) == \A k \in a..(b - 1) : IsSpace(s[k])

\* first index >= i that holds no digit: where a greedy \d+ begun at i stops
DigitRunEnd(s, i) == Min({k \in i..(Len(s) + 1) : k > Len(s) \/ ~IsDigit(s[k])})

\* first index >= i that holds no whitespace: where a greedy \s+ begun at i stops
SpaceRunEnd(s, i) == Min({k \in i..(Len(s) + 1) : k > Len(s) \/ ~IsSpace(s[k])})

\* \b(alt1|alt2|...) matches at i, followed by \b when wbAfter; the set of
\* indices right after such a match
AltEndsAt(s, i, alts, wbAfter) ==
  {i + Len(w) : w \in {v \in alts : WB(s, i) /\ StartsAt(s, i, v)
                                     /\ (wbAfter => WB(s, i + Len(v)))}}

\* re.search of \b(alts)[\b]: ends of the matches at any start index
HeadEnds(s, alts, wbAfter) ==
  UNION {AltEndsAt(s, i, alts, wbAfter) : i \in 1..Len(s)}

\* .*\b(alts)[\b] continued from index from: ends of the matches
NextEnds(s, from, alts, wbAfter) ==
  UNION {IF DotStar(s, from, j) THEN AltEndsAt(s, j, alts, wbAfter) ELSE {}
         : j \in from..Len(s)}

\* re.search(r'\b(heads)[\b].*\b(tails)[\b]', s) is not None
Search2(s, heads, hwb, tails, twb) ==
  \E e \in HeadEnds(s, heads, hwb) : NextEnds(s, e, tails, twb) # {}

\* re.search(r'\b(heads)\b.*\b(mids)\b.*\b(tails)\b', s) is not None
Search3(s, heads, mids, tails) ==
  \E e1 \in HeadEnds(s, heads, TRUE) :
    \E e2 \in NextEnds(s, e1, mids, TRUE) : NextEnds(s, e2, tails, TRUE) # {}

----------------------------------------------------------------------------
(* The string literals of generate_sql_from_pattern (app.py 353-452)        *)

\* app.py 442: brands, in list order
brands ==
  <<<<"n","i","k","e">>,
    <<"a","d","i","d","a","s">>,
    <<"p","u","m","a">>,
    <<"z","a","r","a">>,
    <<"h","&","m">>,
    <<"l","e","v","i","s">>>>

\* app.py 449: categories, in list order
categories ==
  <<<<"m","e","n">>,
    <<"w","o","m","e","n">>,
    <<"k","i","d","s">>,
    <<"a","c","c","e","s","s","o","r","i","e","s">>>>

\* app.py 357: SELECT name FROM sqlite_master WHERE type='table' ORDER BY name;
SQL_tables ==
  <<"S","E","L","E","C","T"," ","n","a","m","e"," ","F","R","O","M"," ","s","q","l","i","t","e","_",
    "m","a","s","t","e","r"," ","W","H","E","R","E"," ","t","y","p","e","=","'","t","a","b","l","e",
    "'"," ","O","R","D","E","R"," ","B","Y"," ","n","a","m","e",";">>

\* app.py 360: SELECT sql FROM sqlite_master WHERE type='table' ORDER BY name;
SQL_schema ==
  <<"S","E","L","E","C","T"," ","s","q","l"," ","F","R","O","M"," ","s","q","l","i","t","e","_","m",
    "a","s","t","e","r"," ","W","H","E","R","E"," ","t","y","p","e","=","'","t","a","b","l","e","'",
    " ","O","R","D","E","R"," ","B","Y"," ","n","a","m","e",";">>

\* app.py 364: SELECT COUNT(*) as total_products FROM products;
SQL_count_products ==
  <<"S","E","L","E","C","T"," ","C","O","U","N","T","(","*",")"," ","a","s"," ","t","o","t","a","l",
    "_","p","r","o","d","u","c","t","s"," ","F","R","O","M"," ","p","r","o","d","u","c","t","s",";">>

\* app.py 367: SELECT id, name, price, brand, category, rating FROM products LIMIT 100;
SQL_list_products ==
  <<"S","E","L","E","C","T"," ","i","d",","," ","n","a","m","e",","," ","p","r","i","c","e",","," ",
    "b","r","a","n","d",","," ","c","a","t","e","g","o","r","y",","," ","r","a","t","i","n","g"," ",
    "F","R","O","M"," ","p","r","o","d","u","c","t","s"," ","L","I","M","I","T"," ","1","0","0",";">>

\* app.py 371: SELECT name, price, brand, category, rating FROM products ORDER BY price DESC LIMIT 
SQL_expensive_head ==
  <<"S","E","L","E","C","T"," ","n","a","m","e",","," ","p","r","i","c","e",","," ","b","r","a","n",
    "d",","," ","c","a","t","e","g","o","r","y",","," ","r","a","t","i","n","g"," ","F","R","O","M",
    " ","p","r","o","d","u","c","t","s"," ","O","R","D","E","R"," ","B","Y"," ","p","r","i","c","e",
    " ","D","E","S","C"," ","L","I","M","I","T"," ">>

\* app.py 375: SELECT name, price, brand, category, rating FROM products ORDER BY price ASC LIMIT 
SQL_cheapest_head ==
  <<"S","E","L","E","C","T"," ","n","a","m","e",","," ","p","r","i","c","e",","," ","b","r","a","n",
    "d",","," ","c","a","t","e","g","o","r","y",","," ","r","a","t","i","n","g"," ","F","R","O","M",
    " ","p","r","o","d","u","c","t","s"," ","O","R","D","E","R"," ","B","Y"," ","p","r","i","c","e",
    " ","A","S","C"," ","L","I","M","I","T"," ">>

\* app.py 379: SELECT name, rating, price, brand, category FROM products ORDER BY rating DESC LIMIT 
SQL_top_rated_head ==
  <<"S","E","L","E","C","T"," ","n","a","m","e",","," ","r","a","t","i","n","g",","," ","p","r","i",
    "c","e",","," ","b","r","a","n","d",","," ","c","a","t","e","g","o","r","y"," ","F","R","O","M",
    " ","p","r","o","d","u","c","t","s"," ","O","R","D","E","R"," ","B","Y"," ","r","a","t","i","n",
    "g"," ","D","E","S","C"," ","L","I","M","I","T"," ">>

\* app.py 382: SELECT ROUND(AVG(price), 2) as average_price, COUNT(*) as total_products FROM products;
SQL_average_price ==
  <<"S","E","L","E","C","T"," ","R","O","U","N","D","(","A","V","G","(","p","r","i","c","e",")",",",
    " ","2",")"," ","a","s"," ","a","v","e","r","a","g","e","_","p","r","i","c","e",","," ","C","O",
    "U","N","T","(","*",")"," ","a","s"," ","t","o","t","a","l","_","p","r","o","d","u","c","t","s",
    " ","F","R","O","M"," ","p","r","o","d","u","c","t","s",";">>

\* app.py 388: SELECT name, price, brand, rating FROM products WHERE price < 
SQL_under_head ==
  <<"S","E","L","E","C","T"," ","n","a","m","e",","," ","p","r","i","c","e",","," ","b","r","a","n",
    "d",","," ","r","a","t","i","n","g"," ","F","R","O","M"," ","p","r","o","d","u","c","t","s"," ",
    "W","H","E","R","E"," ","p","r","i","c","e"," ","<"," ">>

\* app.py 388:  ORDER BY price DESC LIMIT 100;
SQL_under_tail ==
  <<" ","O","R","D","E","R"," ","B","Y"," ","p","r","i","c","e"," ","D","E","S","C"," ","L","I","M",
    "I","T"," ","1","0","0",";">>

\* app.py 393: SELECT name, price, brand, rating FROM products WHERE price > 
SQL_above_head ==
  <<"S","E","L","E","C","T"," ","n","a","m","e",","," ","p","r","i","c","e",","," ","b","r","a","n",
    "d",","," ","r","a","t","i","n","g"," ","F","R","O","M"," ","p","r","o","d","u","c","t","s"," ",
    "W","H","E","R","E"," ","p","r","i","c","e"," ",">"," ">>

\* app.py 393:  ORDER BY price ASC LIMIT 100;
SQL_above_tail ==
  <<" ","O","R","D","E","R"," ","B","Y"," ","p","r","i","c","e"," ","A","S","C"," ","L","I","M","I",
    "T"," ","1","0","0",";">>

\* app.py 397: SELECT COUNT(*) as total_users FROM users;
SQL_count_users ==
  <<"S","E","L","E","C","T"," ","C","O","U","N","T","(","*",")"," ","a","s"," ","t","o","t","a","l",
    "_","u","s","e","r","s"," ","F","R","O","M"," ","u","s","e","r","s",";">>

\* app.py 400: SELECT id, username, email, created_at FROM users LIMIT 100;
SQL_list_users ==
  <<"S","E","L","E","C","T"," ","i","d",","," ","u","s","e","r","n","a","m","e",","," ","e","m","a",
    "i","l",","," ","c","r","e","a","t","e","d","_","a","t"," ","F","R","O","M"," ","u","s","e","r",
    "s"," ","L","I","M","I","T"," ","1","0","0",";">>

\* app.py 404: SELECT COUNT(*) as total_orders FROM orders;
SQL_count_orders ==
  <<"S","E","L","E","C","T"," ","C","O","U","N","T","(","*",")"," ","a","s"," ","t","o","t","a","l",
    "_","o","r","d","e","r","s"," ","F","R","O","M"," ","o","r","d","e","r","s",";">>

\* app.py 407: SELECT SUM(total) as total_revenue, COUNT(*) as total_orders, ROUND(AVG(total), 2) as avg_order_value FROM orders;
SQL_revenue ==
  <<"S","E","L","E","C","T"," ","S","U","M","(","t","o","t","a","l",")"," ","a","s"," ","t","o","t",
    "a","l","_","r","e","v","e","n","u","e",","," ","C","O","U","N","T","(","*",")"," ","a","s"," ",
    "t","o","t","a","l","_","o","r","d","e","r","s",","," ","R","O","U","N","D","(","A","V","G","(",
    "t","o","t","a","l",")",","," ","2",")"," ","a","s"," ","a","v","g","_","o","r","d","e","r","_",
    "v","a","l","u","e"," ","F","R","O","M"," ","o","r","d","e","r","s",";">>

\* app.py 411: SELECT o.id, o.user_id, u.username, o.total, o.status, o.created_at FROM orders o LEFT JOIN users u ON o.user_id = u.id ORDER BY o.created_at DESC LIMIT 
SQL_recent_orders_head ==
  <<"S","E","L","E","C","T"," ","o",".","i","d",","," ","o",".","u","s","e","r","_","i","d",","," ",
    "u",".","u","s","e","r","n","a","m","e",","," ","o",".","t","o","t","a","l",","," ","o",".","s",
    "t","a","t","u","s",","," ","o",".","c","r","e","a","t","e","d","_","a","t"," ","F","R","O","M",
    " ","o","r","d","e","r","s"," ","o"," ","L","E","F","T"," ","J","O","I","N"," ","u","s","e","r",
    "s"," ","u"," ","O","N"," ","o",".","u","s","e","r","_","i","d"," ","="," ","u",".","i","d"," ",
    "O","R","D","E","R"," ","B","Y"," ","o",".","c","r","e","a","t","e","d","_","a","t"," ","D","E",
    "S","C"," ","L","I","M","I","T"," ">>

\* app.py 415: SELECT category, COUNT(*) as product_count, ROUND(AVG(price), 2) as avg_price FROM products GROUP BY category ORDER BY product_count DESC;
SQL_by_category ==
  <<"S","E","L","E","C","T"," ","c","a","t","e","g","o","r","y",","," ","C","O","U","N","T","(","*",
    ")"," ","a","s"," ","p","r","o","d","u","c","t","_","c","o","u","n","t",","," ","R","O","U","N",
    "D","(","A","V","G","(","p","r","i","c","e",")",","," ","2",")"," ","a","s"," ","a","v","g","_",
    "p","r","i","c","e"," ","F","R","O","M"," ","p","r","o","d","u","c","t","s"," ","G","R","O","U",
    "P"," ","B","Y"," ","c","a","t","e","g","o","r","y"," ","O","R","D","E","R"," ","B","Y"," ","p",
    "r","o","d","u","c","t","_","c","o","u","n","t"," ","D","E","S","C",";">>

\* app.py 419: SELECT brand, COUNT(*) as product_count, ROUND(AVG(price), 2) as avg_price FROM products GROUP BY brand ORDER BY product_count DESC LIMIT 20;
SQL_by_brand ==
  <<"S","E","L","E","C","T"," ","b","r","a","n","d",","," ","C","O","U","N","T","(","*",")"," ","a",
    "s"," ","p","r","o","d","u","c","t","_","c","o","u","n","t",","," ","R","O","U","N","D","(","A",
    "V","G","(","p","r","i","c","e",")",","," ","2",")"," ","a","s"," ","a","v","g","_","p","r","i",
    "c","e"," ","F","R","O","M"," ","p","r","o","d","u","c","t","s"," ","G","R","O","U","P"," ","B",
    "Y"," ","b","r","a","n","d"," ","O","R","D","E","R"," ","B","Y"," ","p","r","o","d","u","c","t",
    "_","c","o","u","n","t"," ","D","E","S","C"," ","L","I","M","I","T"," ","2","0",";">>

\* app.py 423: SELECT p.name, p.price, p.brand, COUNT(i.id) as view_count  ...
SQL_popular ==
  <<"S","E","L","E","C","T"," ","p",".","n","a","m","e",","," ","p",".","p","r","i","c","e",","," ",
    "p",".","b","r","a","n","d",","," ","C","O","U","N","T","(","i",".","i","d",")"," ","a","s"," ",
    "v","i","e","w","_","c","o","u","n","t"," ","\n"," "," "," "," "," "," "," "," "," "," "," ",
    " "," "," "," "," "," "," ","F","R","O","M"," ","p","r","o","d","u","c","t","s"," ","p"," ",
    "\n"," "," "," "," "," "," "," "," "," "," "," "," "," "," "," "," "," "," ","L","E","F","T",
    " ","J","O","I","N"," ","i","n","t","e","r","a","c","t","i","o","n","s"," ","i"," ","O","N"," ",
    "p",".","i","d"," ","="," ","i",".","p","r","o","d","u","c","t","_","i","d"," ","\n"," "," ",
    " "," "," "," "," "," "," "," "," "," "," "," "," "," "," "," ","W","H","E","R","E"," ","i",".",
    "a","c","t","i","o","n"," ","="," ","'","v","i","e","w","'"," ","\n"," "," "," "," "," "," ",
    " "," "," "," "," "," "," "," "," "," "," "," ","G","R","O","U","P"," ","B","Y"," ","p",".","i",
    "d"," ","\n"," "," "," "," "," "," "," "," "," "," "," "," "," "," "," "," "," "," ","O","R",
    "D","E","R"," ","B","Y"," ","v","i","e","w","_","c","o","u","n","t"," ","D","E","S","C"," ",
    "\n"," "," "," "," "," "," "," "," "," "," "," "," "," "," "," "," "," "," ","L","I","M","I",
    "T"," ","2","0",";">>

\* app.py 432: SELECT u.username, COUNT(DISTINCT i.id) as interactions,  ...
SQL_user_activity ==
  <<"S","E","L","E","C","T"," ","u",".","u","s","e","r","n","a","m","e",","," ","C","O","U","N","T",
    "(","D","I","S","T","I","N","C","T"," ","i",".","i","d",")"," ","a","s"," ","i","n","t","e","r",
    "a","c","t","i","o","n","s",","," ","\n"," "," "," "," "," "," "," "," "," "," "," "," "," ",
    " "," "," "," "," ","C","O","U","N","T","(","D","I","S","T","I","N","C","T"," ","o",".","i","d",
    ")"," ","a","s"," ","o","r","d","e","r","s",","," ","S","U","M","(","o",".","t","o","t","a","l",
    ")"," ","a","s"," ","t","o","t","a","l","_","s","p","e","n","t","\n"," "," "," "," "," "," ",
    " "," "," "," "," "," "," "," "," "," "," "," ","F","R","O","M"," ","u","s","e","r","s"," ","u",
    "\n"," "," "," "," "," "," "," "," "," "," "," "," "," "," "," "," "," "," ","L","E","F","T",
    " ","J","O","I","N"," ","i","n","t","e","r","a","c","t","i","o","n","s"," ","i"," ","O","N"," ",
    "u",".","i","d"," ","="," ","i",".","u","s","e","r","_","i","d","\n"," "," "," "," "," "," ",
    " "," "," "," "," "," "," "," "," "," "," "," ","L","E","F","T"," ","J","O","I","N"," ","o","r",
    "d","e","r","s"," ","o"," ","O","N"," ","u",".","i","d"," ","="," ","o",".","u","s","e","r","_",
    "i","d","\n"," "," "," "," "," "," "," "," "," "," "," "," "," "," "," "," "," "," ","G","R",
    "O","U","P"," ","B","Y"," ","u",".","i","d","\n"," "," "," "," "," "," "," "," "," "," "," ",
    " "," "," "," "," "," "," ","O","R","D","E","R"," ","B","Y"," ","i","n","t","e","r","a","c","t",
    "i","o","n","s"," ","D","E","S","C","\n"," "," "," "," "," "," "," "," "," "," "," "," "," ",
    " "," "," "," "," ","L","I","M","I","T"," ","5","0",";">>

\* app.py 446: SELECT name, price, rating, category FROM products WHERE LOWER(brand) = '
SQL_brand_head ==
  <<"S","E","L","E","C","T"," ","n","a","m","e",","," ","p","r","i","c","e",","," ","r","a","t","i",
    "n","g",","," ","c","a","t","e","g","o","r","y"," ","F","R","O","M"," ","p","r","o","d","u","c",
    "t","s"," ","W","H","E","R","E"," ","L","O","W","E","R","(","b","r","a","n","d",")"," ","="," ",
    "'">>

\* app.py 446: ' ORDER BY rating DESC LIMIT 100;
SQL_brand_tail ==
  <<"'"," ","O","R","D","E","R"," ","B","Y"," ","r","a","t","i","n","g"," ","D","E","S","C"," ","L",
    "I","M","I","T"," ","1","0","0",";">>

\* app.py 452: SELECT name, price, brand, rating FROM products WHERE LOWER(category) = '
SQL_category_head ==
  <<"S","E","L","E","C","T"," ","n","a","m","e",","," ","p","r","i","c","e",","," ","b","r","a","n",
    "d",","," ","r","a","t","i","n","g"," ","F","R","O","M"," ","p","r","o","d","u","c","t","s"," ",
    "W","H","E","R","E"," ","L","O","W","E","R","(","c","a","t","e","g","o","r","y",")"," ","="," ",
    "'">>

\* app.py 452: ' ORDER BY rating DESC LIMIT 100;
SQL_category_tail ==
  <<"'"," ","O","R","D","E","R"," ","B","Y"," ","r","a","t","i","n","g"," ","D","E","S","C"," ","L",
    "I","M","I","T"," ","1","0","0",";">>

\* app.py 351: get_limit(default='10')
default_limit ==
  <<"1","0">>

\* app.py 371: the ; that ends the templates with an interpolated limit
SQL_semicolon == <<";">>

----------------------------------------------------------------------------
(* The rules of generate_sql_from_pattern (app.py 355-452), one predicate    *)
(* per if condition, over q = question.lower().strip()                      *)

\* app.py 356: re.search(r'\b(show|list|what|display)\b.*\btables?\b', q)
MatchTables(q) ==
  Search2(q,
    {<<"s","h","o","w">>, <<"l","i","s","t">>, <<"w","h","a","t">>,
     <<"d","i","s","p","l","a","y">>},
    TRUE,
    {<<"t","a","b","l","e">>, <<"t","a","b","l","e","s">>},
    TRUE)

\* app.py 359: re.search(r'\b(describe|schema|structure)\b.*\b(products?|users?|orders?)', q)
MatchSchema(q) ==
  Search2(q,
    {<<"d","e","s","c","r","i","b","e">>, <<"s","c","h","e","m","a">>,
     <<"s","t","r","u","c","t","u","r","e">>},
    TRUE,
    {<<"p","r","o","d","u","c","t">>, <<"u","s","e","r">>, <<"o","r","d","e","r">>},
    FALSE)

\* app.py 363: re.search(r'\b(count|how many)\b.*\bproducts?\b', q)
MatchCountProducts(q) ==
  Search2(q,
    {<<"c","o","u","n","t">>, <<"h","o","w"," ","m","a","n","y">>},
    TRUE,
    {<<"p","r","o","d","u","c","t">>, <<"p","r","o","d","u","c","t","s">>},
    TRUE)

\* .*(all)?\s*\bproducts?\b continued from index from: .* takes s[from..m-1],
\* (all)? takes nothing or "all", \s* takes the rest up to the word
AllProductsAfter(s, from) ==
  \E j \in from..Len(s) :
    /\ AltEndsAt(s, j, {<<"p","r","o","d","u","c","t">>, <<"p","r","o","d","u","c","t","s">>}, TRUE) # {}
    /\ \E m \in from..j :
         /\ DotStar(s, from, m)
         /\ \/ SpaceStar(s, m, j)
            \/ StartsAt(s, m, <<"a","l","l">>) /\ m + 3 <= j /\ SpaceStar(s, m + 3, j)

\* app.py 366: re.search(r'\b(show|list|get|display)\b.*(all)?\s*\bproducts?\b', q)
\*             and 'category' not in q
MatchListProducts(q) ==
  /\ \E e \in HeadEnds(q, {<<"s","h","o","w">>, <<"l","i","s","t">>, <<"g","e","t">>,
                        <<"d","i","s","p","l","a","y">>}, TRUE) :
       AllProductsAfter(q, e)
  /\ ~Contains(q, <<"c","a","t","e","g","o","r","y">>)

\* app.py 369: re.search(r'\b(top|most|highest)\b.*\b(expensive|price)\b.*\bproducts?\b', q)
MatchExpensive(q) ==
  Search3(q,
    {<<"t","o","p">>, <<"m","o","s","t">>, <<"h","i","g","h","e","s","t">>},
    {<<"e","x","p","e","n","s","i","v","e">>, <<"p","r","i","c","e">>},
    {<<"p","r","o","d","u","c","t">>, <<"p","r","o","d","u","c","t","s">>})

\* app.py 373: re.search(r'\b(cheap|cheapest|lowest)\b.*\bprice', q)
MatchCheapest(q) ==
  Search2(q,
    {<<"c","h","e","a","p">>, <<"c","h","e","a","p","e","s","t">>,
     <<"l","o","w","e","s","t">>},
    TRUE,
    {<<"p","r","i","c","e">>},
    FALSE)

\* app.py 377: re.search(r'\b(top|best|highest)\b.*\b(rated|rating)\b', q)
MatchTopRated(q) ==
  Search2(q,
    {<<"t","o","p">>, <<"b","e","s","t">>, <<"h","i","g","h","e","s","t">>},
    TRUE,
    {<<"r","a","t","e","d">>, <<"r","a","t","i","n","g">>},
    TRUE)

\* app.py 381: re.search(r'\b(average|avg|mean)\b.*\bprice', q)
MatchAveragePrice(q) ==
  Search2(q,
    {<<"a","v","e","r","a","g","e">>, <<"a","v","g">>, <<"m","e","a","n">>},
    TRUE,
    {<<"p","r","i","c","e">>},
    FALSE)

\* re.search(r'\b(kw1|kw2)\s+(\d+)', s): the start indices of the digit group of
\* every match position; the leftmost is the one re.search returns
NumberGroupStarts(s, kws) ==
  {SpaceRunEnd(s, i + Len(w)) : <<i, w>> \in
     {iw \in (1..Len(s)) \X kws :
        /\ WB(s, iw[1])
        /\ StartsAt(s, iw[1], iw[2])
        /\ SpaceRunEnd(s, iw[1] + Len(iw[2])) > iw[1] + Len(iw[2])
        /\ SpaceRunEnd(s, iw[1] + Len(iw[2])) <= Len(s)
        /\ IsDigit(s[SpaceRunEnd(s, iw[1] + Len(iw[2]))])}}

\* the (\d+) group of the leftmost match, or None when re.search returns None
NumberGroup(s, kws) ==
  LET starts == NumberGroupStarts(s, kws)
  IN  IF starts = {} THEN None
      ELSE SubSeq(s, Min(starts), DigitRunEnd(s, Min(starts)) - 1)

\* the threshold taken from the first digit of the question on, not from the group
UnderPriceFirstNumber(q) ==
  IF NumberGroup(q, {<<"u","n","d","e","r">>}) = None THEN None
  ELSE LET i == Min({k \in 1..Len(q) : IsDigit(q[k])})
       IN  SubSeq(q, i, DigitRunEnd(q, i) - 1)

\* app.py 385: price_match = re.search(r'\bunder\s+(\d+)', q); price_match.group(1)
UnderPrice(q) == NumberGroup(q, {<<"u","n","d","e","r">>})

\* app.py 390: price_match = re.search(r'\b(above|over)\s+(\d+)', q); price_match.group(2)
AbovePrice(q) == NumberGroup(q, {<<"a","b","o","v","e">>, <<"o","v","e","r">>})

\* app.py 386: if price_match
MatchUnder(q) == UnderPrice(q) # None

\* app.py 391: if price_match
MatchAbove(q) == AbovePrice(q) # None

\* app.py 396: re.search(r'\b(count|how many)\b.*\busers?\b', q)
MatchCountUsers(q) ==
  Search2(q,
    {<<"c","o","u","n","t">>, <<"h","o","w"," ","m","a","n","y">>},
    TRUE,
    {<<"u","s","e","r">>, <<"u","s","e","r","s">>},
    TRUE)

\* app.py 399: re.search(r'\b(list|show|all)\b.*\busers?\b', q)
MatchListUsers(q) ==
  Search2(q,
    {<<"l","i","s","t">>, <<"s","h","o","w">>, <<"a","l","l">>},
    TRUE,
    {<<"u","s","e","r">>, <<"u","s","e","r","s">>},
    TRUE)

\* app.py 403: re.search(r'\b(count|how many)\b.*\borders?\b', q)
MatchCountOrders(q) ==
  Search2(q,
    {<<"c","o","u","n","t">>, <<"h","o","w"," ","m","a","n","y">>},
    TRUE,
    {<<"o","r","d","e","r">>, <<"o","r","d","e","r","s">>},
    TRUE)

\* app.py 406: re.search(r'\b(total|sum).*\b(revenue|sales)\b', q)
MatchRevenue(q) ==
  Search2(q,
    {<<"t","o","t","a","l">>, <<"s","u","m">>},
    FALSE,
    {<<"r","e","v","e","n","u","e">>, <<"s","a","l","e","s">>},
    TRUE)

\* app.py 409: re.search(r'\b(recent|latest)\b.*\borders?\b', q)
MatchRecentOrders(q) ==
  Search2(q,
    {<<"r","e","c","e","n","t">>, <<"l","a","t","e","s","t">>},
    TRUE,
    {<<"o","r","d","e","r">>, <<"o","r","d","e","r","s">>},
    TRUE)

\* app.py 414: re.search(r'\bcategor', q)
MatchCategory(q) == HeadEnds(q, {<<"c","a","t","e","g","o","r">>}, FALSE) # {}

\* app.py 418: re.search(r'\bbrands?\b.*\b(count|list)', q)
MatchBrandCount(q) ==
  Search2(q,
    {<<"b","r","a","n","d">>, <<"b","r","a","n","d","s">>},
    TRUE,
    {<<"c","o","u","n","t">>, <<"l","i","s","t">>},
    FALSE)

\* app.py 422: re.search(r'\b(popular|most viewed|trending)\b.*\bproducts?\b', q)
MatchPopular(q) ==
  Search2(q,
    {<<"p","o","p","u","l","a","r">>, <<"m","o","s","t"," ","v","i","e","w","e","d">>,
     <<"t","r","e","n","d","i","n","g">>},
    TRUE,
    {<<"p","r","o","d","u","c","t">>, <<"p","r","o","d","u","c","t","s">>},
    TRUE)

\* app.py 431: re.search(r'\buser.*\bactivity\b', q)
MatchUserActivity(q) ==
  Search2(q,
    {<<"u","s","e","r">>},
    FALSE,
    {<<"a","c","t","i","v","i","t","y">>},
    TRUE)

----------------------------------------------------------------------------
(* generate_sql_from_pattern (app.py 347-454)                               *)

\* app.py 352: re.search(r'\b(\d+)\b', q): the start indices of the matches. A greedy
\* \d+ takes the whole digit run, and no \b lies inside a run of digits
LimitStarts(q) ==
  {i \in 1..Len(q) : WB(q, i) /\ IsDigit(q[i]) /\ WB(q, DigitRunEnd(q, i))}

\* the pattern without its two \b: the first run of digits wherever it stands
get_limit_unanchored(q, default) ==
  IF \A k \in 1..Len(q) : ~IsDigit(q[k]) THEN default
  ELSE LET i == Min({k \in 1..Len(q) : IsDigit(q[k])})
       IN  SubSeq(q, i, DigitRunEnd(q, i) - 1)

\* app.py 351-353: get_limit(default='10'), a closure over q
get_limit(q, default) ==
  IF LimitStarts(q) = {} THEN default
  ELSE SubSeq(q, Min(LimitStarts(q)), DigitRunEnd(q, Min(LimitStarts(q))) - 1)

\* app.py 443-444 and 450-451: for item in items: if item in q: the first such item
FirstIn(items, q) ==
  LET hit == {i \in DOMAIN items : Contains(q, items[i])}
  IN  IF hit = {} THEN None ELSE items[Min(hit)]

\* the brand loop with the question itself written into the query
BrandQueryFromQuestion(q) ==
  IF FirstIn(brands, q) = None THEN None
  ELSE SQL_brand_head \o q \o SQL_brand_tail

\* app.py 443-446: the brand loop
BrandQuery(q) ==
  IF FirstIn(brands, q) = None THEN None
  ELSE SQL_brand_head \o FirstIn(brands, q) \o SQL_brand_tail

\* app.py 450-452: the category loop
CategoryQuery(q) ==
  IF FirstIn(categories, q) = None THEN None
  ELSE SQL_category_head \o FirstIn(categories, q) \o SQL_category_tail

\* app.py 349: q = question.lower().strip()
Normalize(questionText) == Strip(Lower(questionText))

\* app.py 355-360: "Database structure queries"
StructureQuery(q) ==
  IF MatchTables(q) THEN SQL_tables
  ELSE IF MatchSchema(q) THEN SQL_schema
  ELSE None

\* app.py 362-382: "Product queries"
ProductQuery(q) ==
  IF MatchCountProducts(q) THEN SQL_count_products
  ELSE IF MatchListProducts(q) THEN SQL_list_products
  ELSE IF MatchExpensive(q)
    THEN SQL_expensive_head \o get_limit(q, default_limit) \o SQL_semicolon
  ELSE IF MatchCheapest(q)
    THEN SQL_cheapest_head \o get_limit(q, default_limit) \o SQL_semicolon
  ELSE IF MatchTopRated(q)
    THEN SQL_top_rated_head \o get_limit(q, default_limit) \o SQL_semicolon
  ELSE IF MatchAveragePrice(q) THEN SQL_average_price
  ELSE None

\* app.py 384-393: "Price range queries"
PriceRangeQuery(q) ==
  IF MatchUnder(q) THEN SQL_under_head \o UnderPrice(q) \o SQL_under_tail
  ELSE IF MatchAbove(q) THEN SQL_above_head \o AbovePrice(q) \o SQL_above_tail
  ELSE None

\* app.py 395-400: "User queries"
UserQuery(q) ==
  IF MatchCountUsers(q) THEN SQL_count_users
  ELSE IF MatchListUsers(q) THEN SQL_list_users
  ELSE None

\* app.py 402-411: "Order queries"
OrderQuery(q) ==
  IF MatchCountOrders(q) THEN SQL_count_orders
  ELSE IF MatchRevenue(q) THEN SQL_revenue
  ELSE IF MatchRecentOrders(q)
    THEN SQL_recent_orders_head \o get_limit(q, default_limit) \o SQL_semicolon
  ELSE None

\* app.py 413-439: "Category queries", "Brand queries", "Interaction/Analytics queries"
AggregationQuery(q) ==
  IF MatchCategory(q) THEN SQL_by_category
  ELSE IF MatchBrandCount(q) THEN SQL_by_brand
  ELSE IF MatchPopular(q) THEN SQL_popular
  ELSE IF MatchUserActivity(q) THEN SQL_user_activity
  ELSE None

\* a chain with the user and order rules tried before the product and price rules
PatternChainReordered(q) ==
  IF StructureQuery(q) # None THEN StructureQuery(q)
  ELSE IF UserQuery(q) # None THEN UserQuery(q)
  ELSE IF OrderQuery(q) # None THEN OrderQuery(q)
  ELSE IF ProductQuery(q) # None THEN ProductQuery(q)
  ELSE IF PriceRangeQuery(q) # None THEN PriceRangeQuery(q)
  ELSE IF AggregationQuery(q) # None THEN AggregationQuery(q)
  ELSE IF BrandQuery(q) # None THEN BrandQuery(q)
  ELSE CategoryQuery(q)

\* app.py 355-454: the if chain over q, section after section in source order; each
\* if returns, so a later section is reached only when no earlier rule matched
PatternChain(q) ==
  IF StructureQuery(q) # None THEN StructureQuery(q)
  ELSE IF ProductQuery(q) # None THEN ProductQuery(q)
  ELSE IF PriceRangeQuery(q) # None THEN PriceRangeQuery(q)
  ELSE IF UserQuery(q) # None THEN UserQuery(q)
  ELSE IF OrderQuery(q) # None THEN OrderQuery(q)
  ELSE IF AggregationQuery(q) # None THEN AggregationQuery(q)
  ELSE IF BrandQuery(q) # None THEN BrandQuery(q)
  ELSE CategoryQuery(q)

\* app.py 347-454
generate_sql_from_pattern(questionText) == PatternChain(Normalize(questionText))

----------------------------------------------------------------------------
(* generate_sql_with_gemini (app.py 267-344): clean-up of the model's text   *)
(* and the lexical validator                                                 *)

\* the backquote character U+0060 of the code fences, as one atom of a string
backquote == "<backquote>"

\* app.py 324: the opening code fence with its sql tag
fence_sql == <<backquote,backquote,backquote,"s","q","l">>

\* app.py 324: the bare code fence
fence == <<backquote,backquote,backquote>>

\* app.py 325: the prompt's closing label, SQL Query: in bold markup
sql_query_label == <<"*","*","S","Q","L"," ","Q","u","e","r","y",":","*","*">>

\* app.py 333: 'SELECT'
kw_SELECT == <<"S","E","L","E","C","T">>

\* app.py 337: 'LIMIT'
kw_LIMIT == <<"L","I","M","I","T">>

\* app.py 338: ' LIMIT 100;'
limit_100_suffix == <<" ","L","I","M","I","T"," ","1","0","0",";">>

\* app.py 337: ["COUNT(", "SUM(", "AVG(", "MAX(", "MIN("]
aggregate_calls ==
  {<<"C","O","U","N","T","(">>,
   <<"S","U","M","(">>,
   <<"A","V","G","(">>,
   <<"M","A","X","(">>,
   <<"M","I","N","(">>}

\* app.py 321-325: strip, drop the code fences, strip, drop the label, strip
CleanUp(text) ==
  Strip(Remove(Strip(Remove(Remove(Strip(text), fence_sql), fence)), sql_query_label))

\* app.py 329: [line.strip() for line in sql.split('\n') if line.strip()]
NonEmptyLines(sql) ==
  LET kept == SelectSeq(SplitLines(sql), LAMBDA line : Strip(line) # EmptyStr)
  IN  [i \in 1..Len(kept) |-> Strip(kept[i])]

\* app.py 328-330: the first non-empty line when the text has several lines;
\* lines[0] of an empty list raises IndexError, which line 342 turns into None
FirstLine(sql) ==
  IF \E i \in 1..Len(sql) : sql[i] = "\n"
    THEN IF NonEmptyLines(sql) = << >> THEN None ELSE NonEmptyLines(sql)[1]
    ELSE sql

\* the keyword looked for anywhere in the text, not at its start
IsSelectAnywhere(sql) == Contains(Upper(sql), kw_SELECT)

\* app.py 333: sql.upper().startswith("SELECT")
IsSelect(sql) == StartsWith(Upper(sql), kw_SELECT)

\* app.py 337: "LIMIT" not in sql.upper() and not any(agg in sql.upper() for agg in [...])
LacksLimitAndAggregate(sql) ==
  /\ ~Contains(Upper(sql), kw_LIMIT)
  /\ ~\E agg \in aggregate_calls : Contains(Upper(sql), agg)

\* app.py 332-340: reject what is no SELECT, cap what has no LIMIT and no aggregate
Validate(sql) ==
  IF sql = None \/ ~IsSelect(sql) THEN None
  ELSE IF LacksLimitAndAggregate(sql) THEN RStripSemicolon(sql) \o limit_100_suffix
  ELSE sql

\* the function without its try/except: the exception of the external call leaves it
generate_sql_with_gemini_uncaught(enabled, reply) ==
  IF ~enabled THEN None
  ELSE IF reply.kind = "raise" THEN <<"<raise>", reply.error>>
  ELSE Validate(FirstLine(CleanUp(reply.text)))

\* app.py 267-344; reply is what model.generate_content / response.text do:
\* [kind |-> "raise"] (any exception inside the try) or [kind |-> "text", text |-> str]
generate_sql_with_gemini(enabled, reply) ==
  IF ~enabled THEN None
  ELSE IF reply.kind = "raise" THEN None
  ELSE Validate(FirstLine(CleanUp(reply.text)))
----------------------------------------------------------------------------
(* The inputs: questions and what the collaborators answer                   *)

\* questions that reach every rule of the translator, the spec's scenarios among them
Scenarios ==
  {<<"s","h","o","w"," ","t","a","b","l","e","s">>,   \* show tables
   <<" ","S","h","o","w"," ","T","a","b","l","e","s"," ">>,   \*  Show Tables 
   <<"s","h","o","w","\n","t","a","b","l","e","s">>,   \* show\ntables
   <<"d","e","s","c","r","i","b","e"," ","p","r","o","d","u","c","t","s">>,   \* describe products
   <<"h","o","w"," ","m","a","n","y"," ","p","r","o","d","u","c","t","s">>,   \* how many products
   <<"s","h","o","w"," ","a","l","l"," ","p","r","o","d","u","c","t","s">>,   \* show all products
   <<"s","h","o","w"," ","t","o","p"," ","5"," ","e","x","p","e","n","s","i","v","e"," ","p","r","o","d","u","c","t","s">>,   \* show top 5 expensive products
   <<"t","o","p"," ","5"," ","e","x","p","e","n","s","i","v","e"," ","p","r","o","d","u","c","t","s">>,   \* top 5 expensive products
   <<"m","o","s","t"," ","e","x","p","e","n","s","i","v","e"," ","p","r","o","d","u","c","t","s">>,   \* most expensive products
   <<"c","h","e","a","p","e","s","t"," ","p","r","i","c","e">>,   \* cheapest price
   <<"l","o","w","e","s","t"," ","p","r","i","c","e"," ","3">>,   \* lowest price 3
   <<"b","e","s","t"," ","r","a","t","e","d">>,   \* best rated
   <<"t","o","p"," ","r","a","t","e","d"," ","v","2">>,   \* top rated v2
   <<"2","n","d"," ","t","o","p"," ","r","a","t","e","d"," ","5">>,   \* 2nd top rated 5
   <<"a","v","e","r","a","g","e"," ","p","r","i","c","e">>,   \* average price
   <<"p","r","o","d","u","c","t","s"," ","u","n","d","e","r"," ","5","0","0">>,   \* products under 500
   <<"5"," ","p","r","o","d","u","c","t","s"," ","u","n","d","e","r"," ","5","0","0">>,   \* 5 products under 500
   <<"i","t","e","m","s"," ","o","v","e","r"," ","1","0","0">>,   \* items over 100
   <<"h","o","w"," ","m","a","n","y"," ","u","s","e","r","s">>,   \* how many users
   <<"a","l","l"," ","u","s","e","r","s">>,   \* all users
   <<"c","o","u","n","t"," ","o","r","d","e","r","s">>,   \* count orders
   <<"t","o","t","a","l"," ","r","e","v","e","n","u","e">>,   \* total revenue
   <<"l","a","t","e","s","t"," ","7"," ","o","r","d","e","r","s">>,   \* latest 7 orders
   <<"c","a","t","e","g","o","r","i","e","s">>,   \* categories
   <<"b","r","a","n","d","s"," ","c","o","u","n","t">>,   \* brands count
   <<"p","o","p","u","l","a","r"," ","p","r","o","d","u","c","t","s">>,   \* popular products
   <<"u","s","e","r"," ","a","c","t","i","v","i","t","y">>,   \* user activity
   <<"n","i","k","e">>,   \* nike
   <<"H","&","M">>,   \* H&M
   <<"w","o","m","e","n"," ","n","i","k","e">>,   \* women nike
   <<"m","e","n">>,   \* men
   <<"w","o","m","e","n">>,   \* women
   <<"k","i","d","s">>,   \* kids
   <<"a","c","c","e","s","s","o","r","i","e","s">>,   \* accessories
   <<"s","h","o","w"," ","p","r","o","d","u","c","t","s"," ","f","o","r"," ","a","l","l"," ","u","s","e","r","s">>,   \* show products for all users
   <<"l","i","s","t"," ","u","s","e","r","s"," ","u","n","d","e","r"," ","5","0">>,   \* list users under 50
   <<"h","e","l","l","o">>}   \* hello

\* the words the bounded questions are built from
Vocabulary ==
  {<<"s","h","o","w">>,   \* show
   <<"t","o","p">>,   \* top
   <<"r","a","t","e","d">>,   \* rated
   <<"p","r","i","c","e">>,   \* price
   <<"p","r","o","d","u","c","t","s">>,   \* products
   <<"u","n","d","e","r">>,   \* under
   <<"5">>,   \* 5
   <<"2","0">>,   \* 20
   <<"a","7">>,   \* a7
   <<"w","o","m","e","n">>}   \* women

\* texts the external model may return
ModelTexts ==
  {<<"S","E","L","E","C","T"," ","n","a","m","e"," ","F","R","O","M"," ","p","r","o","d","u","c","t","s">>,   \* SELECT name FROM products
   <<"s","e","l","e","c","t"," ","n","a","m","e"," ","f","r","o","m"," ","p","r","o","d","u","c","t","s",";">>,   \* select name from products;
   <<backquote,backquote,backquote,"s","q","l","\n","S","E","L","E","C","T"," ","C","O","U","N","T","(","*",")"," ","F","R","O","M"," ","u","s","e","r","s","\n",backquote,backquote,backquote>>,   \* (backquote)(backquote)(backquote)sql\nSELECT COUNT(*) FROM users\n(backquote)(backquote)(backquote)
   <<"S","E","L","E","C","T"," ","n","a","m","e"," ","F","R","O","M"," ","p","r","o","d","u","c","t","s"," ","L","I","M","I","T"," ","5">>,   \* SELECT name FROM products LIMIT 5
   <<"S","E","L","E","C","T"," ","i","d"," ","F","R","O","M"," ","o","r","d","e","r","s","\n","O","R","D","E","R"," ","B","Y"," ","i","d">>,   \* SELECT id FROM orders\nORDER BY id
   <<"*","*","S","Q","L"," ","Q","u","e","r","y",":","*","*"," ","S","E","L","E","C","T"," ","e","m","a","i","l"," ","F","R","O","M"," ","u","s","e","r","s",";">>,   \* **SQL Query:** SELECT email FROM users;
   <<"S","E","L","E","C","T"," ","n","a","m","e"," ","F","R","O","M"," ","p","r","o","d","u","c","t","s"," ","W","H","E","R","E"," ","n","a","m","e"," ","L","I","K","E"," ","'","%","l","i","m","i","t","e","d","%","'">>,   \* SELECT name FROM products WHERE name LIKE '%limited%'
   <<"S","E","L","E","C","T"," ","C","O","U","N","T"," ","(","*",")"," ","F","R","O","M"," ","o","r","d","e","r","s">>,   \* SELECT COUNT (*) FROM orders
   <<"S","E","L","E","C","T"," ","1",";"," ","D","R","O","P"," ","T","A","B","L","E"," ","u","s","e","r","s">>,   \* SELECT 1; DROP TABLE users
   <<"D","R","O","P"," ","T","A","B","L","E"," ","u","s","e","r","s">>,   \* DROP TABLE users
   <<" "," ","d","e","l","e","t","e"," ","f","r","o","m"," ","u","s","e","r","s"," "," ">>,   \*   delete from users  
   <<"D","E","L","E","T","E"," ","F","R","O","M"," ","u","s","e","r","s"," ","W","H","E","R","E"," ","i","d"," ","I","N"," ","(","S","E","L","E","C","T"," ","i","d"," ","F","R","O","M"," ","u","s","e","r","s",")">>,   \* DELETE FROM users WHERE id IN (SELECT id FROM users)
   <<"H","e","r","e"," ","i","s"," ","t","h","e"," ","q","u","e","r","y",":","\n","S","E","L","E","C","T"," ","*"," ","F","R","O","M"," ","p","r","o","d","u","c","t","s">>,   \* Here is the query:\nSELECT * FROM products
   <<>>,   \* 
   <<backquote,backquote,backquote,"s","q","l","i","t","e","\n","S","E","L","E","C","T"," ","n","a","m","e"," ","F","R","O","M"," ","p","r","o","d","u","c","t","s"," ","L","I","M","I","T"," ","5","\n",backquote,backquote,backquote>>,   \* (backquote)(backquote)(backquote)sqlite\nSELECT name FROM products LIMIT 5\n(backquote)(backquote)(backquote)
   <<backquote,backquote,backquote,"S","Q","L","\n","S","E","L","E","C","T"," ","C","O","U","N","T","(","*",")"," ","F","R","O","M"," ","u","s","e","r","s","\n",backquote,backquote,backquote>>,   \* (backquote)(backquote)(backquote)SQL\nSELECT COUNT(*) FROM users\n(backquote)(backquote)(backquote)
   <<backquote,backquote,backquote,"\n",backquote,backquote,backquote>>}   \* (backquote)(backquote)(backquote)\n(backquote)(backquote)(backquote)

MaxWords == 3

\* words joined by single spaces
RECURSIVE Join(_)
Join(ws) ==
  IF Len(ws) = 0 THEN EmptyStr
  ELSE IF Len(ws) = 1 THEN ws[1]
  ELSE ws[1] \o <<" ">> \o Join(Tail(ws))

\* every question of at most MaxWords words of the vocabulary
WordQuestions ==
  UNION {{Join(ws) : ws \in [1..n -> Vocabulary]} : n \in 1..MaxWords}

Questions == Scenarios \cup WordQuestions

\* the request body has no "question" key
Missing == <<"<missing>">>

\* the "question" field of the JSON body: absent, null, empty, blank, or a question
QuestionFields == {Missing, None, EmptyStr, <<" ", " ">>} \cup Scenarios

\* the exceptions the external call can end in: model.generate_content raising, or
\* response.text raising on a reply without text
ModelErrors == {"DeadlineExceeded", "ResourceExhausted", "ValueError: no text in reply"}

\* the model is not called in this request
NoReply == [kind |-> "none"]

ModelReplies ==
  [kind : {"raise"}, error : ModelErrors] \cup [kind : {"text"}, text : ModelTexts]

\* what the storage engine does: to the introspection queries of
\* get_database_schema, and to the query of the request
\* the diagnostic is str(e) of the exception conn.execute raises
EngineErrors == {"(sqlite3.OperationalError) no such column: cost",
                 "(sqlite3.OperationalError) near \"FROM\": syntax error"}

EngineReplies ==
  [schema : {"ok", "error"}, execute : {"ok", "error"}, diagnostic : EngineErrors]

----------------------------------------------------------------------------
(* api_database_query (app.py 457-523) and its collaborators                 *)

\* an exception in flight, with str(e)
Raise(e) == <<"<raise>", e>>

IsRaise(x) == Len(x) = 2 /\ x[1] = "<raise>"

\* app.py 69-143: the tables create_tables creates
Tables == {"users", "products", "cart", "orders", "order_items", "interactions"}

\* tables a database named by DATABASE_URI (app.py 48) may hold besides those of
\* create_tables and the sqlite_sequence that AUTOINCREMENT brings
OtherTables == {"sessions", "audit_log", "legacy_orders"}

\* the order in which sqlite_master lists the tables
TableOrder ==
  <<"users", "sqlite_sequence", "products", "cart", "orders", "order_items",
    "interactions", "sessions", "audit_log", "legacy_orders">>

\* app.py 243-244: tables = [row[0] for row in result]
ListTables(tables) == SelectSeq(TableOrder, LAMBDA t : t \in tables)

\* where the engine raises during an introspection: nowhere, at connect(), at the
\* query on sqlite_master, or at one of the two queries on a table
SchemaFaults ==
  [at : {"none", "connect", "tables"}]
    \cup [at : {"columns", "sample"}, table : Tables \cup {"sqlite_sequence"} \cup OtherTables]

\* app.py 247-259: the loop over the tables; ts are the tables still to describe,
\* schema the dict built so far, queries the statements executed so far
RECURSIVE DescribeTables(_, _, _, _)
DescribeTables(ts, fault, schema, queries) ==
  IF ts = << >> THEN [schema |-> schema, queries |-> queries, raised |-> FALSE]
  ELSE LET table   == Head(ts)
           columns == Append(queries, <<"PRAGMA table_info", table>>)
           sample  == Append(columns, <<"SELECT * LIMIT 2", table>>)
       IN  IF fault = [at |-> "columns", table |-> table]
             THEN [schema |-> schema, queries |-> columns, raised |-> TRUE]
           ELSE IF fault = [at |-> "sample", table |-> table]
             THEN [schema |-> schema, queries |-> sample, raised |-> TRUE]
           ELSE DescribeTables(Tail(ts), fault,
                               schema @@ (table :> [columns |-> <<"columns of", table>>,
                                                    sample_data |-> <<"rows of", table>>]),
                               sample)

\* the function with an except clause that returns what the loop had built
get_database_schema_partial(engine, tables, fault) ==
  IF engine = "None" \/ fault.at = "connect"
    THEN [schema |-> << >>, queries |-> << >>]
  ELSE IF fault.at = "tables"
    THEN [schema |-> << >>, queries |-> <<"SELECT name FROM sqlite_master">>]
  ELSE LET body == DescribeTables(ListTables(tables), fault, << >>,
                                  <<"SELECT name FROM sqlite_master">>)
       IN  [schema |-> body.schema, queries |-> body.queries]

\* app.py 239-264: the description of every table, or {} when anything in the try
\* block raises (connect() on a db_engine that is None included); queries are the
\* statements the engine was given
get_database_schema(engine, tables, fault) ==
  IF engine = "None" \/ fault.at = "connect"
    THEN [schema |-> << >>, queries |-> << >>]
  ELSE IF fault.at = "tables"
    THEN [schema |-> << >>, queries |-> <<"SELECT name FROM sqlite_master">>]
  ELSE LET body == DescribeTables(ListTables(tables), fault, << >>,
                                  <<"SELECT name FROM sqlite_master">>)
       IN  [schema  |-> IF body.raised THEN << >> ELSE body.schema,
            queries |-> body.queries]

\* the field taken as it is, without strip()
QuestionTextUnstripped(field) ==
  IF field = Missing THEN EmptyStr
  ELSE IF field = None THEN <<"<raise>", "'NoneType' object has no attribute 'strip'">>
  ELSE field

\* app.py 461-462: data.get("question", "").strip(); None has no strip()
QuestionText(field) ==
  IF field = Missing THEN EmptyStr
  ELSE IF field = None THEN Raise("'NoneType' object has no attribute 'strip'")
  ELSE Strip(field)

\* app.py 465, 468, 487-490, 519-523: the error responses
ErrorResponse(http, message, detail) ==
  [http |-> http, status |-> "error", message |-> message, detail |-> detail,
   question |-> None, sql_query |-> None, source |-> "", explanation |-> ""]

\* app.py 517-523: except Exception as e
ExceptionResponse(e) == ErrorResponse(400, "Query execution error: ", e)

\* app.py 500-515: the success response
SuccessResponse(q, sql, src) ==
  [http |-> 200, status |-> "success", message |-> "", detail |-> "",
   question |-> q, sql_query |-> sql, source |-> src,
   explanation |-> IF src = "gemini" THEN "Query generated by Gemini AI."
                   ELSE "Query generated by pattern matching."]

\* what a run of the handler leaves behind
Outcome(resp, sql, src, called, ran) ==
  [response |-> resp, sql_query |-> sql, source |-> src, calls |-> called, executed |-> ran]

\* the execution with its failure swallowed: the request answers with no rows
ExecuteStageSwallowed(q, sql, src, called, ereply) ==
  Outcome(SuccessResponse(q, sql, src), sql, src, Append(called, "conn.execute"), sql)

\* app.py 492-515: conn.execute(text(sql_query)) and the response built from its rows
ExecuteStage(q, sql, src, called, ereply) ==
  IF ereply.execute = "error"
    THEN Outcome(ExceptionResponse(ereply.diagnostic),
                 sql, src, Append(called, "conn.execute"), sql)
    ELSE Outcome(SuccessResponse(q, sql, src), sql, src, Append(called, "conn.execute"), sql)

\* the fallback without lines 486-490: what the rules returned is executed as it is
PatternStageUnchecked(q, sql, src, called, ereply) ==
  IF Truthy(sql) THEN ExecuteStage(q, sql, src, called, ereply)
  ELSE LET made == generate_sql_from_pattern(q)
           now  == Append(called, "generate_sql_from_pattern")
       IN  ExecuteStage(q, made, IF Truthy(made) THEN "pattern" ELSE src, now, ereply)

\* the fallback without line 484: the tag of a rule's query is never set
PatternStageUntagged(q, sql, src, called, ereply) ==
  IF Truthy(sql) THEN ExecuteStage(q, sql, src, called, ereply)
  ELSE LET made == generate_sql_from_pattern(q)
           now  == Append(called, "generate_sql_from_pattern")
       IN  IF Truthy(made) THEN ExecuteStage(q, made, src, now, ereply)
           ELSE Outcome(ErrorResponse(400, "Could not understand your question.", ""),
                        made, src, now, None)

\* app.py 480-490: the fallback to the patterns, and the no-candidate error
PatternStage(q, sql, src, called, ereply) ==
  IF Truthy(sql) THEN ExecuteStage(q, sql, src, called, ereply)
  ELSE LET made == generate_sql_from_pattern(q)
           now  == Append(called, "generate_sql_from_pattern")
       IN  IF Truthy(made) THEN ExecuteStage(q, made, "pattern", now, ereply)
           ELSE Outcome(ErrorResponse(400, "Could not understand your question.", ""),
                        made, src, now, None)

\* app.py 267-319: the calls generate_sql_with_gemini makes
GeminiCalls(enabled) ==
  IF enabled THEN <<"generate_sql_with_gemini", "model.generate_content">>
  ELSE <<"generate_sql_with_gemini">>

\* the handler with the fallback taken whatever the AI translator returned
GeminiStageAlwaysFallback(enabled, q, mreply, ereply) ==
  IF ~enabled THEN PatternStage(q, None, "unknown", << >>, ereply)
  ELSE LET schema == get_database_schema("engine", store,
                                          [at |-> IF ereply.schema = "error"
                                                    THEN "tables" ELSE "none"]).schema
           made   == generate_sql_with_gemini(enabled, mreply)
           called == <<"get_database_schema">> \o GeminiCalls(enabled)
       IN  IF IsRaise(made)
             THEN Outcome(ExceptionResponse(made[2]), None, "unknown", called, None)
           ELSE PatternStage(q, None, "unknown", called, ereply)

\* app.py 470-478: Gemini first if available
GeminiStage(enabled, q, mreply, ereply) ==
  IF ~enabled THEN PatternStage(q, None, "unknown", << >>, ereply)
  ELSE LET schema == get_database_schema("engine", store,
                                          [at |-> IF ereply.schema = "error"
                                                    THEN "tables" ELSE "none"]).schema
           made   == generate_sql_with_gemini(enabled, mreply)
           called == <<"get_database_schema">> \o GeminiCalls(enabled)
       IN  IF IsRaise(made)
             THEN Outcome(ExceptionResponse(made[2]), None, "unknown", called, None)
           ELSE IF Truthy(made) THEN PatternStage(q, made, "gemini", called, ereply)
           ELSE PatternStage(q, made, "unknown", called, ereply)

\* app.py 458-523: the whole handler
HandleQuery(enabled, engine, field, mreply, ereply) ==
  LET q == QuestionText(field)
  IN  IF IsRaise(q) THEN Outcome(ExceptionResponse(q[2]), None, "", << >>, None)
      ELSE IF q = EmptyStr
        THEN Outcome(ErrorResponse(400, "Please provide a question", ""), None, "", << >>, None)
      ELSE IF engine = "None"
        THEN Outcome(ErrorResponse(500, "Database not connected", ""), None, "", << >>, None)
      ELSE GeminiStage(enabled, q, mreply, ereply)

Called(name, called) == \E i \in DOMAIN called : called[i] = name

----------------------------------------------------------------------------
(* The application: requests to POST /api/database/query, one at a time      *)

NoResponse == [http |-> 0]

Init ==
  /\ GEMINI_ENABLED \in BOOLEAN
  /\ db_engine \in {"engine", "None"}
  /\ pc = "idle"
  /\ question = None
  /\ model_reply = NoReply
  /\ engine_reply = [schema |-> "unused", execute |-> "unused", diagnostic |-> ""]
  /\ sql_query = None
  /\ source = ""
  /\ calls = << >>
  /\ executed = None
  /\ response = NoResponse
  /\ store = Tables \cup {"sqlite_sequence"}
  /\ client = "None"
  /\ session = << >>
  /\ orders_col = << >>

\* app.py 457-523: a request is handled from its body to its response; the replies
\* of the model and of the engine are kept as far as the handler asked for them
ApiDatabaseQuery(field, mreply, ereply) ==
  /\ pc = "idle"
  /\ \E out \in {HandleQuery(GEMINI_ENABLED, db_engine, field, mreply, ereply)} :
         /\ question' = field
         /\ model_reply' =
              IF Called("model.generate_content", out.calls) THEN mreply ELSE NoReply
         /\ engine_reply' =
              [schema  |-> IF Called("get_database_schema", out.calls)
                             THEN ereply.schema ELSE "unused",
               execute |-> IF Called("conn.execute", out.calls)
                             THEN ereply.execute ELSE "unused",
               diagnostic |-> IF Called("conn.execute", out.calls) /\ ereply.execute = "error"
                                THEN ereply.diagnostic ELSE ""]
         /\ sql_query' = out.sql_query
         /\ source' = out.source
         /\ calls' = out.calls
         /\ executed' = out.executed
         /\ response' = out.response
  /\ pc' = "responded"
  /\ UNCHANGED <<GEMINI_ENABLED, db_engine, store, client, session, orders_col>>

\* the response is sent; nothing of the request outlives it
RequestDone ==
  /\ pc = "responded"
  /\ pc' = "idle"
  /\ question' = None
  /\ model_reply' = NoReply
  /\ engine_reply' = [schema |-> "unused", execute |-> "unused", diagnostic |-> ""]
  /\ sql_query' = None
  /\ source' = ""
  /\ calls' = << >>
  /\ executed' = None
  /\ response' = NoResponse
  /\ UNCHANGED <<GEMINI_ENABLED, db_engine, store, client, session, orders_col>>

Next ==
  \/ \E field \in QuestionFields, mreply \in ModelReplies, ereply \in EngineReplies :
       ApiDatabaseQuery(field, mreply, ereply)
  \/ RequestDone

Spec == Init /\ [][Next]_vars

----------------------------------------------------------------------------
(* The rule-based translator on its own: generate_sql_from_pattern applied   *)
(* to every bounded question                                                 *)

InitPattern ==
  /\ GEMINI_ENABLED = FALSE
  /\ db_engine = "engine"
  /\ pc = "call"
  /\ question \in Questions
  /\ model_reply = NoReply
  /\ engine_reply = [schema |-> "unused", execute |-> "unused", diagnostic |-> ""]
  /\ sql_query = None
  /\ source = ""
  /\ calls = << >>
  /\ executed = None
  /\ response = NoResponse
  /\ store = Tables \cup {"sqlite_sequence"}
  /\ client = "None"
  /\ session = << >>
  /\ orders_col = << >>

\* app.py 482: sql_query = generate_sql_from_pattern(question)
CallPattern ==
  /\ pc = "call"
  /\ sql_query' = generate_sql_from_pattern(question)
  /\ calls' = <<"generate_sql_from_pattern">>
  /\ pc' = "returned"
  /\ UNCHANGED <<GEMINI_ENABLED, db_engine, question, model_reply, engine_reply,
                 source, executed, response, store, client, session, orders_col>>

NextPattern == CallPattern

SpecPattern == InitPattern /\ [][NextPattern]_vars

----------------------------------------------------------------------------
(* The schema endpoint: requests to GET /api/database/schema                  *)

InitSchema ==
  /\ GEMINI_ENABLED \in BOOLEAN
  /\ db_engine \in {"engine", "None"}
  /\ pc = "idle"
  /\ question = None
  /\ model_reply = NoReply
  /\ engine_reply = [schema |-> "unused", execute |-> "unused", diagnostic |-> ""]
  /\ sql_query = None
  /\ source = ""
  /\ calls = << >>
  /\ executed = None
  /\ response = NoResponse
  /\ store \in {Tables \cup {"sqlite_sequence"} \cup other : other \in SUBSET OtherTables}
  /\ client = "None"
  /\ session = << >>
  /\ orders_col = << >>

\* app.py 526-530: the description is returned as it comes, always as a success;
\* engine_reply keeps the fault the engine had in this request
ApiDatabaseSchema(fault) ==
  /\ pc = "idle"
  /\ \E out \in {get_database_schema(db_engine, store, fault)} :
       /\ response' = [http |-> 200, status |-> "success", schema |-> out.schema]
       /\ calls' = out.queries
  /\ engine_reply' =
       IF /\ db_engine = "engine"
          /\ (fault.at \in {"connect", "tables"}
                \/ (fault.at \in {"columns", "sample"} /\ fault.table \in store))
         THEN fault ELSE [at |-> "none"]
  /\ pc' = "responded"
  /\ UNCHANGED <<GEMINI_ENABLED, db_engine, question, model_reply, sql_query, source,
                 executed, store, client, session, orders_col>>

NextSchema ==
  \/ \E fault \in SchemaFaults : ApiDatabaseSchema(fault)
  \/ RequestDone

SpecSchema == InitSchema /\ [][NextSchema]_vars

----------------------------------------------------------------------------
(* The document-store app (src/apps.py): the session of one browser, its     *)
(* cart and the checkout                                                      *)

\* a JSON value of a request body: its type and its text; null also stands for a
\* key the body does not hold, which data.get() turns into None
Json(type, text) == [type |-> type, text |-> text]

\* the bound on the quantity of a cart entry
MaxQuantity == 3

\* the bound on the number of orders in the collection
MaxOrders == 1

\* apps.py 209: the product_id values of the bodies: a number and a string naming
\* a sample product, a number naming none, ObjectId strings, a malformed id, null
ProductIdValues ==
  {Json("int", "1"), Json("str", "1"), Json("int", "21"),
   Json("str", "oid_a"), Json("str", "oid_b"), Json("str", "oid_z"),
   Json("str", "abc"), Json("null", "")}

\* apps.py 210: the quantity values of the bodies; "absent" is a body without the key
QuantityValues == {Json("absent", ""), Json("int", "2"), Json("str", "many"), Json("null", "")}

\* the strings that are well-formed ObjectIds, and the products collection: the
\* price of each document by its _id
ObjectIds == {"oid_a", "oid_b", "oid_z"}

products_col == [oid_a |-> 40, oid_b |-> 15]

\* apps.py 62-63: the prices generate_sample_products draws at random
SamplePrices == {10, 25}

\* what the surroundings of a POST do: the lookup in the collection, the price
\* drawn for the sample product, whether an exception propagates to the debugger
CartEnvironments ==
  {env \in [find : {"ok", "raise"}, price : SamplePrices, propagate : BOOLEAN] :
     (env.find = "raise" \/ env.propagate) => env.price = 10}

\* Python int() of a JSON value: the number, or "raise" for ValueError / TypeError
PyInt(value) ==
  LET numbers == ("1" :> 1) @@ ("2" :> 2) @@ ("21" :> 21)
  IN  IF value.type \in {"int", "str"} /\ value.text \in DOMAIN numbers
        THEN [ok |-> TRUE, n |-> numbers[value.text]]
        ELSE [ok |-> FALSE, n |-> 0]

\* dict assignment session[key] = value
SetItem(dict, key, value) == (key :> value) @@ dict

\* apps.py 200-201: if 'cart' not in session: session['cart'] = []
WithCart(sess) == IF "cart" \in DOMAIN sess THEN sess ELSE SetItem(sess, "cart", << >>)

\* the response of a handler of apps.py
ShopResponse(endpoint, http, status, message) ==
  [endpoint |-> endpoint, http |-> http, status |-> status, message |-> message]

\* an exception no handler catches: Flask answers 500; run under debug=True
\* (apps.py 286) the exception may propagate before the session is saved
Unhandled(endpoint, before, after, propagate) ==
  [session  |-> IF propagate THEN before ELSE after,
   response |-> ShopResponse(endpoint, 500, "error", "Internal Server Error")]

\* apps.py 213-222: the product lookup: [found, raised, price]
FindProduct(clientv, product_id, find, price) ==
  IF clientv = "client"
    THEN IF product_id.type = "null"                 \* ObjectId(None) is a new id
           THEN [raised |-> FALSE, found |-> FALSE, price |-> 0]
         ELSE IF ~(product_id.type = "str" /\ product_id.text \in ObjectIds)
           THEN [raised |-> TRUE, found |-> FALSE, price |-> 0]      \* InvalidId, TypeError
         ELSE IF find = "raise"
           THEN [raised |-> TRUE, found |-> FALSE, price |-> 0]
         ELSE IF product_id.text \in DOMAIN products_col
           THEN [raised |-> FALSE, found |-> TRUE, price |-> products_col[product_id.text]]
         ELSE [raised |-> FALSE, found |-> FALSE, price |-> 0]
    ELSE IF ~PyInt(product_id).ok
           THEN [raised |-> TRUE, found |-> FALSE, price |-> 0]
         ELSE IF PyInt(product_id).n \in 1..20       \* generate_sample_products(20)
           THEN [raised |-> FALSE, found |-> TRUE, price |-> price]
         ELSE [raised |-> FALSE, found |-> FALSE, price |-> 0]

\* apps.py 226: the index of the first item of the cart with that product_id, 0 for None
ExistingItem(items, product_id) ==
  LET hits == {i \in DOMAIN items : items[i].product_id = product_id}
  IN  IF hits = {} THEN 0 ELSE Min(hits)

\* apps.py 225-237: the entry is raised by the quantity, or a new one is appended
AddToCart(items, product_id, price, quantity) ==
  LET i == ExistingItem(items, product_id)
  IN  IF i # 0
        THEN [items EXCEPT ![i].quantity = @ + quantity]
        ELSE Append(items, [product_id |-> product_id, price |-> price, quantity |-> quantity])

\* apps.py 208-240: POST /api/cart; held is the session after lines 200-201
CartPost(sess, held, clientv, body, find, price, propagate) ==
  LET quantity == PyInt(IF body.quantity.type = "absent" THEN Json("int", "1")
                        ELSE body.quantity)
      product  == FindProduct(clientv, body.product_id, find, price)
  IN  IF ~quantity.ok \/ product.raised
        THEN Unhandled("cart", sess, held, propagate)
      ELSE IF ~product.found
        THEN [session  |-> held,
              response |-> ShopResponse("cart", 404, "error", "Product not found")]
      ELSE [session  |-> SetItem(held, "cart",
                                 AddToCart(held.cart, body.product_id, product.price,
                                           quantity.n)),
            response |-> ShopResponse("cart", 200, "success", "Product added to cart")]

\* apps.py 242-245: DELETE /api/cart
CartDelete(held, body) ==
  [session  |-> SetItem(held, "cart",
                        SelectSeq(held.cart,
                                  LAMBDA item : item.product_id # body.product_id)),
   response |-> ShopResponse("cart", 200, "success", "Product removed from cart")]

\* apps.py 198-245: the handler of /api/cart
cart(sess, clientv, method, body, find, price, propagate) ==
  IF method = "GET"
    THEN [session  |-> WithCart(sess),
          response |-> ShopResponse("cart", 200, "success", "")]
  ELSE IF method = "POST"
    THEN CartPost(sess, WithCart(sess), clientv, body, find, price, propagate)
  ELSE CartDelete(WithCart(sess), body)

\* apps.py 259: sum(item['price'] * item['quantity'] for item in session['cart'])
RECURSIVE Total(_)
Total(items) ==
  IF items = << >> THEN 0
  ELSE Head(items).price * Head(items).quantity + Total(Tail(items))

\* the handler that empties the cart before the order is stored
checkout_clears_first(sess, clientv, orders, insert) ==
  IF "user_id" \notin DOMAIN sess
    THEN [session |-> sess, orders |-> orders,
          response |-> ShopResponse("checkout", 401, "error", "Login required")]
  ELSE IF "cart" \notin DOMAIN sess \/ sess.cart = << >>
    THEN [session |-> sess, orders |-> orders,
          response |-> ShopResponse("checkout", 400, "error", "Cart is empty")]
  ELSE IF clientv = "client" /\ insert = "raise"
    THEN [session |-> SetItem(sess, "cart", << >>), orders |-> orders,
          response |-> ShopResponse("checkout", 500, "error", "insert_one failed")]
  ELSE [session  |-> SetItem(sess, "cart", << >>),
        orders   |-> IF clientv = "client"
                       THEN Append(orders, [user_id |-> sess.user_id, items |-> sess.cart,
                                            total |-> Total(sess.cart), status |-> "pending"])
                       ELSE orders,
        response |-> ShopResponse("checkout", 200, "success", "Order placed successfully")]

\* apps.py 247-276: the handler of POST /api/checkout; insert is what
\* orders_col.insert_one does
checkout(sess, clientv, orders, insert) ==
  IF "user_id" \notin DOMAIN sess
    THEN [session |-> sess, orders |-> orders,
          response |-> ShopResponse("checkout", 401, "error", "Login required")]
  ELSE IF "cart" \notin DOMAIN sess \/ sess.cart = << >>
    THEN [session |-> sess, orders |-> orders,
          response |-> ShopResponse("checkout", 400, "error", "Cart is empty")]
  ELSE IF clientv = "client" /\ insert = "raise"
    THEN [session |-> sess, orders |-> orders,
          response |-> ShopResponse("checkout", 500, "error", "insert_one failed")]
  ELSE [session  |-> SetItem(sess, "cart", << >>),
        orders   |-> IF clientv = "client"
                       THEN Append(orders, [user_id |-> sess.user_id, items |-> sess.cart,
                                            total |-> Total(sess.cart), status |-> "pending"])
                       ELSE orders,
        response |-> ShopResponse("checkout", 200, "success", "Order placed successfully")]

\* apps.py 164-191: the handler of POST /api/login; auth is what the lookup of the
\* user and the password check give
login(sess, clientv, auth) ==
  IF auth = "raise"
    THEN [session |-> sess, response |-> ShopResponse("login", 500, "error", "exception")]
  ELSE IF clientv = "client" /\ auth = "invalid"
    THEN [session  |-> sess,
          response |-> ShopResponse("login", 401, "error", "Invalid credentials")]
  ELSE [session  |-> SetItem(SetItem(sess, "user_id", "u1"), "username", "ann"),
        response |-> ShopResponse("login", 200, "success", "Login successful")]

\* apps.py 127-162: the handler of POST /api/register; fields is what the body
\* and the lookup of the email give
register(sess, clientv, fields) ==
  IF fields = "missing"
    THEN [session  |-> sess,
          response |-> ShopResponse("register", 400, "error", "Missing required fields")]
  ELSE IF clientv = "client" /\ fields = "exists"
    THEN [session  |-> sess,
          response |-> ShopResponse("register", 400, "error", "Email already exists")]
  ELSE IF clientv = "client" /\ fields = "raise"
    THEN [session |-> sess, response |-> ShopResponse("register", 500, "error", "exception")]
  ELSE [session  |-> SetItem(SetItem(sess, "user_id", "u1"), "username", "ann"),
        response |-> ShopResponse("register", 200, "success", "User registered successfully")]

\* the items of the session cart, none when the session has no cart
CartItems(sess) == IF "cart" \in DOMAIN sess THEN sess.cart ELSE << >>

InitShop ==
  /\ GEMINI_ENABLED = FALSE
  /\ db_engine = "None"
  /\ pc = "shop"
  /\ question = None
  /\ model_reply = NoReply
  /\ engine_reply = [schema |-> "unused", execute |-> "unused", diagnostic |-> ""]
  /\ sql_query = None
  /\ source = ""
  /\ calls = << >>
  /\ executed = None
  /\ response = NoResponse
  /\ store = {}
  /\ client \in {"client", "None"}
  /\ session = << >>
  /\ orders_col = << >>

\* a request to /api/cart; the quantity of an entry stays within MaxQuantity
CartRequest(method, body, find, price, propagate) ==
  /\ pc = "shop"
  /\ \E out \in {cart(session, client, method, body, find, price, propagate)} :
       /\ \A i \in DOMAIN CartItems(out.session) :
            CartItems(out.session)[i].quantity <= MaxQuantity
       /\ session' = out.session
       /\ response' = out.response
  /\ UNCHANGED <<GEMINI_ENABLED, db_engine, pc, question, model_reply, engine_reply,
                 sql_query, source, calls, executed, store, client, orders_col>>

\* a request to /api/checkout; the collection stays within MaxOrders
CheckoutRequest(insert) ==
  /\ pc = "shop"
  /\ \E out \in {checkout(session, client, orders_col, insert)} :
       /\ Len(out.orders) <= MaxOrders
       /\ session' = out.session
       /\ orders_col' = out.orders
       /\ response' = out.response
  /\ UNCHANGED <<GEMINI_ENABLED, db_engine, pc, question, model_reply, engine_reply,
                 sql_query, source, calls, executed, store, client>>

LoginRequest(auth) ==
  /\ pc = "shop"
  /\ \E out \in {login(session, client, auth)} :
       session' = out.session /\ response' = out.response
  /\ UNCHANGED <<GEMINI_ENABLED, db_engine, pc, question, model_reply, engine_reply,
                 sql_query, source, calls, executed, store, client, orders_col>>

RegisterRequest(fields) ==
  /\ pc = "shop"
  /\ \E out \in {register(session, client, fields)} :
       session' = out.session /\ response' = out.response
  /\ UNCHANGED <<GEMINI_ENABLED, db_engine, pc, question, model_reply, engine_reply,
                 sql_query, source, calls, executed, store, client, orders_col>>

\* apps.py 193-196: session.clear()
logout ==
  /\ pc = "shop"
  /\ session' = << >>
  /\ response' = ShopResponse("logout", 200, "success", "Logged out successfully")
  /\ UNCHANGED <<GEMINI_ENABLED, db_engine, pc, question, model_reply, engine_reply,
                 sql_query, source, calls, executed, store, client, orders_col>>

NextShop ==
  \/ CartRequest("GET", [product_id |-> Json("null", ""), quantity |-> Json("absent", "")],
                 "ok", 10, FALSE)
  \/ \E body \in [product_id : ProductIdValues, quantity : QuantityValues],
        env \in CartEnvironments :
       CartRequest("POST", body, env.find, env.price, env.propagate)
  \/ \E body \in [product_id : ProductIdValues, quantity : {Json("absent", "")}] :
       CartRequest("DELETE", body, "ok", 10, FALSE)
  \/ \E insert \in {"ok", "raise"} : CheckoutRequest(insert)
  \/ \E auth \in {"ok", "invalid", "raise"} : LoginRequest(auth)
  \/ \E fields \in {"ok", "missing", "exists", "raise"} : RegisterRequest(fields)
  \/ logout

SpecShop == InitShop /\ [][NextShop]_vars

----------------------------------------------------------------------------
(* The rules as the specification numbers them: declaration order, the        *)
(* condition of each and the query it returns                                 *)

\* app.py 355-452: every rule of the translator, in declaration order
Rules(q) ==
  <<[name |-> "tables", fires |-> MatchTables(q), query |-> SQL_tables],
    [name |-> "schema", fires |-> MatchSchema(q), query |-> SQL_schema],
    [name |-> "count_products", fires |-> MatchCountProducts(q), query |-> SQL_count_products],
    [name |-> "list_products", fires |-> MatchListProducts(q), query |-> SQL_list_products],
    [name |-> "expensive", fires |-> MatchExpensive(q),
     query |-> SQL_expensive_head \o get_limit(q, default_limit) \o SQL_semicolon],
    [name |-> "cheapest", fires |-> MatchCheapest(q),
     query |-> SQL_cheapest_head \o get_limit(q, default_limit) \o SQL_semicolon],
    [name |-> "top_rated", fires |-> MatchTopRated(q),
     query |-> SQL_top_rated_head \o get_limit(q, default_limit) \o SQL_semicolon],
    [name |-> "average_price", fires |-> MatchAveragePrice(q), query |-> SQL_average_price],
    [name |-> "under", fires |-> MatchUnder(q),
     query |-> SQL_under_head \o UnderPrice(q) \o SQL_under_tail],
    [name |-> "above", fires |-> MatchAbove(q),
     query |-> SQL_above_head \o AbovePrice(q) \o SQL_above_tail],
    [name |-> "count_users", fires |-> MatchCountUsers(q), query |-> SQL_count_users],
    [name |-> "list_users", fires |-> MatchListUsers(q), query |-> SQL_list_users],
    [name |-> "count_orders", fires |-> MatchCountOrders(q), query |-> SQL_count_orders],
    [name |-> "revenue", fires |-> MatchRevenue(q), query |-> SQL_revenue],
    [name |-> "recent_orders", fires |-> MatchRecentOrders(q),
     query |-> SQL_recent_orders_head \o get_limit(q, default_limit) \o SQL_semicolon],
    [name |-> "by_category", fires |-> MatchCategory(q), query |-> SQL_by_category],
    [name |-> "by_brand", fires |-> MatchBrandCount(q), query |-> SQL_by_brand],
    [name |-> "popular", fires |-> MatchPopular(q), query |-> SQL_popular],
    [name |-> "user_activity", fires |-> MatchUserActivity(q), query |-> SQL_user_activity],
    [name |-> "brand_name", fires |-> FirstIn(brands, q) # None, query |-> BrandQuery(q)],
    [name |-> "category_name", fires |-> FirstIn(categories, q) # None,
     query |-> CategoryQuery(q)]>>

\* the indices of the rules that fire, rules being Rules(q) of some q
Firing(rules) == {k \in DOMAIN rules : rules[k].fires}

\* the name of the earliest rule that fires, "none" when none does
FirstRule(rules) == IF Firing(rules) = {} THEN "none" ELSE rules[Min(Firing(rules))].name

\* the first run of digits of s, wherever it stands; s holds a digit
FirstDigitRun(s) ==
  LET i == Min({k \in 1..Len(s) : IsDigit(s[k])})
  IN  SubSeq(s, i, DigitRunEnd(s, i) - 1)

HasDigit(s) == \E k \in 1..Len(s) : IsDigit(s[k])

\* s[i..j] is a run of digits that stands as a word of its own
IsWholeNumber(s, i, j) ==
  /\ 1 <= i /\ i <= j /\ j <= Len(s)
  /\ \A k \in i..j : IsDigit(s[k])
  /\ ~IsWordAt(s, i - 1)
  /\ ~IsWordAt(s, j + 1)

\* the first run of digits of s that stands as a word of its own, None without one
FirstWholeNumber(s) ==
  LET starts == {i \in 1..Len(s) : \E j \in i..Len(s) : IsWholeNumber(s, i, j)}
  IN  IF starts = {} THEN None
      ELSE SubSeq(s, Min(starts), DigitRunEnd(s, Min(starts)) - 1)

\* w stands in s as a word of its own
MentionsWord(s, w) ==
  \E i \in 1..Len(s) :
    StartsAt(s, i, w) /\ ~IsWordAt(s, i - 1) /\ ~IsWordAt(s, i + Len(w))

\* the text begins with the keyword SELECT, in any letter case
BeginsWithSelect(s) ==
  Len(s) >= 6 /\ Lower(SubSeq(s, 1, 6)) = <<"s","e","l","e","c","t">>

\* the candidate the AI translator extracts from the model's text of this request
Candidate == FirstLine(CleanUp(model_reply.text))

\* the text holds the keyword LIMIT as a word of its own, followed by a number
HasRowLimit(s) ==
  \E i \in 1..Len(s) :
    /\ StartsAt(Upper(s), i, kw_LIMIT)
    /\ ~IsWordAt(s, i - 1)
    /\ SpaceRunEnd(s, i + 5) > i + 5
    /\ IsWordAt(s, SpaceRunEnd(s, i + 5))
    /\ IsDigit(s[SpaceRunEnd(s, i + 5)])

\* the text calls one of the aggregate functions
HasAggregateCall(s) ==
  \E i \in 1..Len(s) : \E agg \in aggregate_calls :
    StartsAt(Upper(s), i, agg) /\ ~IsWordAt(s, i - 1)

\* the text is one statement: no ; but at its very end
IsSingleStatement(s) == \A i \in 1..(Len(s) - 1) : s[i] # ";"

EndsWith(s, suffix) ==
  Len(s) >= Len(suffix) /\ SubSeq(s, Len(s) - Len(suffix) + 1, Len(s)) = suffix

\* the body gives no question: the field is absent, empty or blank
IsBlankField(field) ==
  field = Missing \/ (field # None /\ \A i \in 1..Len(field) : IsSpace(field[i]))

----------------------------------------------------------------------------
(* The claims                                                                 *)

\* C1: generate_sql_from_pattern returns the query of the earliest rule, in
\* declaration order, whose condition the lower-cased, trimmed question satisfies,
\* whatever later rules it satisfies too, and None when it satisfies no rule.
C1_FirstMatchWins ==
  pc = "returned" =>
    \E rules \in {Rules(Normalize(question))} :
      IF Firing(rules) = {} THEN sql_query = None
      ELSE sql_query = rules[Min(Firing(rules))].query

\* a question that satisfies two rules with different queries got the earlier one
C1_Witness ==
  /\ pc = "returned"
  /\ \E rules \in {Rules(Normalize(question))} :
       \E k1 \in Firing(rules), k2 \in Firing(rules) :
         /\ k1 = Min(Firing(rules))
         /\ k1 < k2
         /\ rules[k1].query # rules[k2].query
         /\ sql_query = rules[k1].query

\* C2 as stated: when the external model call fails, the response is a success
\* from the rule-based translator, or the no-candidate error when no rule matches.
C2_RuleSuccessOrNoCandidate ==
  (pc = "responded" /\ model_reply.kind = "raise") =>
    \/ response.status = "success" /\ response.source = "pattern"
    \/ /\ response.http = 400
       /\ response.message = "Could not understand your question."
       /\ generate_sql_from_pattern(QuestionText(question)) = None

\* C2 amended: when the external model call fails, the rule-based translator is
\* consulted and the response is a success from it, the no-candidate error, or the
\* storage engine's error on the rule's query; it never carries the AI failure.
C2_AiFailureNeverVisible ==
  (pc = "responded" /\ model_reply.kind = "raise") =>
    \E made \in {generate_sql_from_pattern(QuestionText(question))} :
      /\ Called("generate_sql_from_pattern", calls)
      /\ response.detail # model_reply.error
      /\ \/ /\ response.status = "success"
            /\ response.source = "pattern"
            /\ response.sql_query = made
         \/ /\ response.http = 400
            /\ response.message = "Could not understand your question."
            /\ made = None
            /\ executed = None
         \/ /\ response.http = 400
            /\ response.message = "Query execution error: "
            /\ engine_reply.execute = "error"
            /\ executed = made

\* the model call failed and the request was answered from a rule
C2_Witness ==
  /\ pc = "responded"
  /\ model_reply.kind = "raise"
  /\ response.status = "success"
  /\ response.source = "pattern"

\* C3: a candidate that does not begin with SELECT, in any letter case, is rejected:
\* the AI translator yields no query, the patterns are consulted instead, and
\* neither the candidate nor the model's text is what the storage engine is given.
C3_NonSelectRejected ==
  (pc = "responded" /\ model_reply.kind = "text" /\ ~BeginsWithSelect(Candidate)) =>
    /\ source # "gemini"
    /\ Called("generate_sql_from_pattern", calls)
    /\ executed # Candidate
    /\ executed # model_reply.text
    /\ executed # None => BeginsWithSelect(executed)

\* a statement that only holds a SELECT was rejected and a rule's query was run
C3_Witness ==
  /\ pc = "responded"
  /\ model_reply.kind = "text"
  /\ ~BeginsWithSelect(Candidate)
  /\ Contains(Upper(Candidate), kw_SELECT)
  /\ executed # None

\* C4: an accepted candidate with no aggregate-function call and no row limit
\* comes out with the cap LIMIT 100; one that has either comes out unchanged.
C4_CapOfHundred ==
  (pc = "responded" /\ source = "gemini") =>
    IF ~HasAggregateCall(Candidate) /\ ~HasRowLimit(Candidate)
      THEN EndsWith(sql_query, limit_100_suffix)
      ELSE sql_query = Candidate

\* C5: every query handed to the storage engine is a single SELECT statement
\* and holds a row limit unless it holds an aggregate.
C5_ReadOnlyAndCapped ==
  executed # None =>
    /\ BeginsWithSelect(executed)
    /\ IsSingleStatement(executed)
    /\ HasAggregateCall(executed) \/ HasRowLimit(executed)

\* C6: "show top 5 expensive products" yields the price-descending query with LIMIT 5.
C6_ShowTopFiveExpensive ==
  (pc = "returned"
     /\ question = <<"s","h","o","w"," ","t","o","p"," ","5"," ","e","x","p","e","n","s","i","v","e"," ","p","r","o","d","u","c","t","s">>) =>
    sql_query = SQL_expensive_head \o <<"5">> \o SQL_semicolon

\* C7: a request with no question (absent, empty or blank) is answered 400 at once:
\* no translator, no introspection and no execution is invoked for it.
C7_EmptyQuestion ==
  (pc = "responded" /\ IsBlankField(question)) =>
    /\ response.http = 400
    /\ response.status = "error"
    /\ response.message = "Please provide a question"
    /\ calls = << >>
    /\ executed = None

\* a blank question arrived while the AI translator and the engine were available
C7_Witness ==
  /\ pc = "responded"
  /\ question = <<" ", " ">>
  /\ GEMINI_ENABLED
  /\ db_engine = "engine"
  /\ response.http = 400

\* C8: when the category-name rule is the first to fire, the query filters on a
\* category the question mentions as a word.
C8_FiltersMentionedCategory ==
  pc = "returned" =>
    \E q \in {Normalize(question)} :
      (/\ FirstRule(Rules(q)) = "category_name"
       /\ \E i \in DOMAIN categories : MentionsWord(q, categories[i])) =>
        \E i \in DOMAIN categories :
          /\ MentionsWord(q, categories[i])
          /\ sql_query = SQL_category_head \o categories[i] \o SQL_category_tail

\* C9 as stated: when the under rule fires, the threshold is the first integer
\* literal of the question.
C9_FirstIntegerLiteral ==
  pc = "returned" =>
    \E q \in {Normalize(question)} :
      FirstRule(Rules(q)) = "under" =>
        sql_query = SQL_under_head \o FirstWholeNumber(q) \o SQL_under_tail

\* C9 amended: when the under rule fires, the threshold is the run of digits that
\* follows the leftmost "under" at a word start, whitespace between them, and the
\* query is bounded to 100 rows; "products under 500" yields price < 500.
C9_NumberAfterUnder ==
  pc = "returned" =>
    \E q \in {Normalize(question)} :
      /\ FirstRule(Rules(q)) = "under" =>
           \E i \in 1..Len(q), j \in 1..Len(q), k \in 1..Len(q) :
             /\ StartsAt(q, i, <<"u","n","d","e","r">>) /\ ~IsWordAt(q, i - 1)
             /\ i + 5 < j /\ \A m \in (i + 5)..(j - 1) : IsSpace(q[m])
             /\ j <= k /\ \A m \in j..k : IsDigit(q[m])
             /\ k = Len(q) \/ ~IsDigit(q[k + 1])
             /\ \A h \in 1..(i - 1) :
                  ~(/\ StartsAt(q, h, <<"u","n","d","e","r">>) /\ ~IsWordAt(q, h - 1)
                    /\ SpaceRunEnd(q, h + 5) > h + 5
                    /\ IsWordAt(q, SpaceRunEnd(q, h + 5))
                    /\ IsDigit(q[SpaceRunEnd(q, h + 5)]))
             /\ sql_query = SQL_under_head \o SubSeq(q, j, k) \o SQL_under_tail
      /\ question = <<"p","r","o","d","u","c","t","s"," ","u","n","d","e","r"," ","5","0","0">> =>
           sql_query = SQL_under_head \o <<"5","0","0">> \o SQL_under_tail

\* the under rule fired on a question whose first number is not the threshold
C9_Witness ==
  /\ pc = "returned"
  /\ FirstRule(Rules(Normalize(question))) = "under"
  /\ sql_query # SQL_under_head \o FirstWholeNumber(Normalize(question)) \o SQL_under_tail
  /\ EndsWith(sql_query, SQL_under_tail)

\* the rules the limit rule applies to, each with the head of its query
LimitRuleHeads ==
  [expensive |-> SQL_expensive_head, cheapest |-> SQL_cheapest_head,
   top_rated |-> SQL_top_rated_head, recent_orders |-> SQL_recent_orders_head]

\* C10 as stated: for the rules the limit rule applies to, the LIMIT is the first
\* run of digits anywhere in the question, and 10 when it holds no digit.
C10_FirstDigitRunAnywhere ==
  pc = "returned" =>
    \E q \in {Normalize(question)} :
      \E first \in {FirstRule(Rules(q))} :
        first \in DOMAIN LimitRuleHeads =>
          sql_query = LimitRuleHeads[first]
                        \o (IF HasDigit(q) THEN FirstDigitRun(q) ELSE <<"1","0">>)
                        \o SQL_semicolon

\* C10 amended: for the rules the limit rule applies to, the LIMIT is the first run
\* of digits that stands as a word of its own (no letter, digit or underscore next
\* to it), and 10 when the question holds no such run.
C10_FirstWholeNumber ==
  pc = "returned" =>
    \E q \in {Normalize(question)} :
      \E first \in {FirstRule(Rules(q))} :
        first \in DOMAIN LimitRuleHeads =>
          \/ /\ ~\E i \in 1..Len(q), j \in 1..Len(q) : IsWholeNumber(q, i, j)
             /\ sql_query = LimitRuleHeads[first] \o <<"1","0">> \o SQL_semicolon
          \/ \E i \in 1..Len(q), j \in 1..Len(q) :
               /\ IsWholeNumber(q, i, j)
               /\ \A h \in 1..(i - 1), g \in 1..Len(q) : ~IsWholeNumber(q, h, g)
               /\ sql_query = LimitRuleHeads[first] \o SubSeq(q, i, j) \o SQL_semicolon

\* a limit rule fired on a question whose first digits are glued to letters
C10_Witness ==
  /\ pc = "returned"
  /\ \E first \in {FirstRule(Rules(Normalize(question)))} :
       /\ first \in DOMAIN LimitRuleHeads
       /\ HasDigit(Normalize(question))
       /\ sql_query # LimitRuleHeads[first]
                        \o FirstDigitRun(Normalize(question)) \o SQL_semicolon

\* the executed query of this request came from the rule-based translator
ProducedByRule == Called("generate_sql_from_pattern", calls)

\* C11 as stated: in every success response the source field is "ai" when the
\* executed query came from the AI translator and "rule" when it came from the
\* rule-based translator, and it takes no other value.
C11_SourceAiOrRule ==
  (pc = "responded" /\ response.status = "success") =>
    /\ response.source \in {"ai", "rule"}
    /\ ProducedByRule => response.source = "rule"
    /\ ~ProducedByRule => response.source = "ai"

\* C11 amended: in every success response the source field is "gemini" when the
\* executed query is the accepted candidate of the AI translator and "pattern"
\* when it is the query of the rule-based translator; it takes no other value.
C11_SourceGeminiOrPattern ==
  (pc = "responded" /\ response.status = "success") =>
    /\ response.source \in {"gemini", "pattern"}
    /\ response.sql_query = executed
    /\ ProducedByRule =>
         /\ response.source = "pattern"
         /\ executed = generate_sql_from_pattern(QuestionText(question))
    /\ ~ProducedByRule =>
         /\ response.source = "gemini"
         /\ executed = generate_sql_with_gemini(GEMINI_ENABLED, model_reply)

\* the AI translator was enabled and rejected the model's text, and the request
\* succeeded with the query of a rule
C11_Witness ==
  /\ pc = "responded"
  /\ response.status = "success"
  /\ GEMINI_ENABLED
  /\ model_reply.kind = "text"
  /\ ProducedByRule
  /\ response.source = "pattern"

\* how many times the handler called name in this request
TimesCalled(name) == Cardinality({i \in DOMAIN calls : calls[i] = name})

\* C12: the rule-based translator is consulted only when the AI translator is
\* not enabled or gave no accepted candidate; the external model is never called
\* when it is not configured; and an accepted candidate of the AI translator is
\* the one query the request executes, no rule being consulted.
C12_AiFirstThenRules ==
  pc = "responded" =>
    /\ ProducedByRule =>
         \/ ~GEMINI_ENABLED
         \/ model_reply.kind = "raise"
         \/ /\ model_reply.kind = "text"
            /\ ~Truthy(generate_sql_with_gemini(TRUE, model_reply))
    /\ ~GEMINI_ENABLED =>
         /\ ~Called("model.generate_content", calls)
         /\ model_reply = NoReply
    /\ (model_reply.kind = "text" /\ Truthy(generate_sql_with_gemini(TRUE, model_reply))) =>
         /\ ~ProducedByRule
         /\ executed = generate_sql_with_gemini(TRUE, model_reply)
         /\ sql_query = executed
         /\ TimesCalled("conn.execute") = 1

\* the AI translator accepted a candidate for a question a rule matches too, and
\* the candidate is what was executed
C12_Witness ==
  /\ pc = "responded"
  /\ model_reply.kind = "text"
  /\ executed = generate_sql_with_gemini(TRUE, model_reply)
  /\ executed # None
  /\ Truthy(generate_sql_from_pattern(QuestionText(question)))
  /\ executed # generate_sql_from_pattern(QuestionText(question))
  /\ response.status = "success"

\* C13: when the storage engine rejects the query during execution, the failure
\* is reported: the response has status "error", HTTP 400 or 500 and a message
\* that carries the diagnostic of the engine, and the request has no success response.
C13_ExecutionFailureReported ==
  (pc = "responded" /\ engine_reply.execute = "error") =>
    /\ response.status = "error"
    /\ response.status # "success"
    /\ response.http \in {400, 500}
    /\ response.message = "Query execution error: "
    /\ response.detail = engine_reply.diagnostic
    /\ response.detail \in EngineErrors

\* the engine rejected the accepted candidate of the AI translator
C13_Witness ==
  /\ pc = "responded"
  /\ engine_reply.execute = "error"
  /\ source = "gemini"
  /\ executed # None
  /\ response.http = 400

\* the request carries a question that is not empty once trimmed, and neither
\* translator has an acceptable query for it
NoCandidate ==
  /\ question # None
  /\ ~IsBlankField(question)
  /\ ~(model_reply.kind = "text" /\ Truthy(generate_sql_with_gemini(TRUE, model_reply)))
  /\ ~Truthy(generate_sql_from_pattern(QuestionText(question)))

\* the response of the no-candidate case: HTTP 400 with the usage hint, nothing executed
HintResponse ==
  /\ response.status = "error"
  /\ response.http = 400
  /\ response.message = "Could not understand your question."
  /\ executed = None
  /\ ~Called("conn.execute", calls)

\* C14 as stated: a non-empty question for which neither translator produces an
\* acceptable query is answered with status "error", HTTP 400 and a usage hint,
\* and no query is executed.
C14_NoCandidateHint == (pc = "responded" /\ NoCandidate) => HintResponse

\* C14 amended: while the storage engine is connected, a non-empty question for
\* which neither translator produces an acceptable query is answered with status
\* "error", HTTP 400 and a usage hint, and no query is executed for it.
C14_NoCandidateHintWhenConnected ==
  (pc = "responded" /\ db_engine = "engine" /\ NoCandidate) =>
    /\ HintResponse
    /\ ProducedByRule
    /\ GEMINI_ENABLED => Called("model.generate_content", calls)

\* the AI translator rejected the model's text and no rule matched the question
C14_Witness ==
  /\ pc = "responded"
  /\ db_engine = "engine"
  /\ NoCandidate
  /\ model_reply.kind = "text"
  /\ model_reply.text # EmptyStr
  /\ response.http = 400

\* C15 as stated: get_database_schema never raises; it returns an empty
\* description when the storage connection is unavailable, and in every other
\* case a description of every table of the store.
C15_EmptyOnlyWithoutConnection ==
  pc = "responded" =>
    /\ response.status = "success"
    /\ IF db_engine = "None" \/ engine_reply.at = "connect"
         THEN response.schema = << >>
         ELSE DOMAIN response.schema = store

\* C15 amended: get_database_schema never raises; it returns an empty
\* description, never a partial one, when the storage connection is unavailable
\* or the engine rejects any of its introspection queries, and in every other
\* case a description of every table of the store.
C15_EmptyOnAnyFailure ==
  pc = "responded" =>
    /\ response.status = "success"
    /\ IF db_engine = "None" \/ engine_reply.at # "none"
         THEN response.schema = << >>
         ELSE DOMAIN response.schema = store

\* the engine rejected the sample query of a table after others were described
C15_Witness ==
  /\ pc = "responded"
  /\ db_engine = "engine"
  /\ engine_reply.at = "sample"
  /\ Len(calls) > 3
  /\ response.schema = << >>

\* the first index from i on where s holds no backquote
BackquoteRunEnd(s, i) ==
  Min({k \in i..Len(s) : s[k] # backquote} \cup {Len(s) + 1})

\* the length of the code-fence markup s begins with, 0 when it begins with none:
\* three or more backquotes and the language tag sql or sqlite, in any letter
\* case, written right after them
FenceLength(s) ==
  IF ~StartsWith(s, fence) THEN 0
  ELSE LET e    == BackquoteRunEnd(s, 1)
           rest == Lower(SubSeq(s, e, Len(s)))
           tag(w) == StartsWith(rest, w) /\ ~IsWordAt(rest, Len(w) + 1)
       IN  IF tag(<<"s","q","l","i","t","e">>) THEN e + 5
           ELSE IF tag(<<"s","q","l">>) THEN e + 2
           ELSE e - 1

\* the text without its code-fence markup
RECURSIVE WithoutFences(_)
WithoutFences(s) ==
  IF s = << >> THEN s
  ELSE IF FenceLength(s) > 0 THEN WithoutFences(SubSeq(s, FenceLength(s) + 1, Len(s)))
  ELSE <<Head(s)>> \o WithoutFences(Tail(s))

\* the first non-empty line, trimmed, of the text without its code-fence markup
\* and without the prompt's label; the empty text when every line is empty
FirstQueryLine(text) ==
  LET kept == SelectSeq(SplitLines(Remove(WithoutFences(text), sql_query_label)),
                        LAMBDA line : Strip(line) # EmptyStr)
  IN  IF kept = << >> THEN EmptyStr ELSE Strip(kept[1])

\* C16: for every text of the external model, the candidate the AI translator
\* validates is the first non-empty line of the text with its code-fence markup
\* stripped: it holds no backquote and no line break, and what follows that line
\* is discarded.
C16_FirstLineWithoutFences ==
  (pc = "responded" /\ model_reply.kind = "text") =>
    /\ Candidate = FirstQueryLine(model_reply.text)
    /\ ~Contains(Candidate, <<backquote>>)
    /\ ~Contains(Candidate, <<"\n">>)

\* the queries that are fixed text as a whole
FixedQueries ==
  {SQL_tables, SQL_schema, SQL_count_products, SQL_list_products, SQL_average_price,
   SQL_count_users, SQL_list_users, SQL_count_orders, SQL_revenue, SQL_by_category,
   SQL_by_brand, SQL_popular, SQL_user_activity}

\* the templates that take a number: the fixed text before and after it
NumberTemplates ==
  {<<SQL_expensive_head, SQL_semicolon>>, <<SQL_cheapest_head, SQL_semicolon>>,
   <<SQL_top_rated_head, SQL_semicolon>>, <<SQL_recent_orders_head, SQL_semicolon>>,
   <<SQL_under_head, SQL_under_tail>>, <<SQL_above_head, SQL_above_tail>>}

\* the runs of decimal digits that stand in q, and the default of the limit rule
NumbersOf(q) ==
  {SubSeq(q, i, j) : <<i, j>> \in {r \in (1..Len(q)) \X (1..Len(q)) :
                                    r[1] <= r[2] /\ \A k \in r[1]..r[2] : IsDigit(q[k])}}
    \cup {default_limit}

\* the query is fixed template text around at most one value, which is a run
\* of digits of q or an item of the brand or category vocabulary
OnlyTemplateAndValues(sql, q) ==
  \/ sql = None
  \/ sql \in FixedQueries
  \/ \E tpl \in NumberTemplates, v \in NumbersOf(q) : sql = tpl[1] \o v \o tpl[2]
  \/ \E i \in DOMAIN brands :
       Contains(q, brands[i]) /\ sql = SQL_brand_head \o brands[i] \o SQL_brand_tail
  \/ \E i \in DOMAIN categories :
       Contains(q, categories[i])
         /\ sql = SQL_category_head \o categories[i] \o SQL_category_tail

\* the value the rule of that name extracts from q, None when it extracts none
ExtractedValue(name, q) ==
  IF name \in DOMAIN LimitRuleHeads THEN get_limit(q, default_limit)
  ELSE IF name = "under" THEN UnderPrice(q)
  ELSE IF name = "above" THEN AbovePrice(q)
  ELSE IF name = "brand_name" THEN FirstIn(brands, q)
  ELSE IF name = "category_name" THEN FirstIn(categories, q)
  ELSE None

\* for every scenario question: the rule that answers it, the value that rule
\* extracts and the query returned
QueryTable ==
  {[rule  |-> FirstRule(Rules(Normalize(q))),
    value |-> ExtractedValue(FirstRule(Rules(Normalize(q))), Normalize(q)),
    query |-> generate_sql_from_pattern(q)] : q \in Scenarios}

IsCheckout == response'.http # 0 /\ response'.endpoint = "checkout"

\* C18: POST /api/checkout answers 401 when the session has no user, whatever
\* the cart holds, and 400 when it has a user and an empty or absent cart; a
\* checkout that answers 401, 400 or 500 leaves the session cart as it was, and
\* one that answers success leaves it empty: the cart is emptied exactly when the
\* order is placed.
C18_CartEmptiedIffOrderPlaced ==
  [][IsCheckout =>
       /\ response'.http \in {200, 400, 401, 500}
       /\ "user_id" \notin DOMAIN session => response'.http = 401
       /\ ("user_id" \in DOMAIN session /\ CartItems(session) = << >>) =>
            response'.http = 400
       /\ response'.http \in {400, 401, 500} =>
            /\ response'.status = "error"
            /\ session' = session
            /\ orders_col' = orders_col
       /\ response'.http = 200 =>
            /\ response'.status = "success"
            /\ CartItems(session) # << >>
            /\ "cart" \in DOMAIN session'
            /\ session'.cart = << >>
            /\ session'.user_id = session.user_id
     ]_vars

\* a checkout failed at insert_one and the cart still holds its entries
C18_Witness ==
  /\ response.http = 500
  /\ response.endpoint = "checkout"
  /\ "user_id" \in DOMAIN session
  /\ Len(CartItems(session)) = 2

\* no two entries of the cart hold the same product_id value
OneEntryPerProduct(items) ==
  \A i, j \in DOMAIN items : items[i].product_id = items[j].product_id => i = j

\* the quantity a POST asks for: the number of the body, 1 without one
Requested(body) ==
  PyInt(IF body.quantity.type = "absent" THEN Json("int", "1") ELSE body.quantity)

\* the product_id of the body names no product of the catalogue in use
UnknownProduct(body) ==
  ~FindProduct(client, body.product_id, "ok", 10).found

\* a POST for a product_id the cart holds raises the quantity of its entry by the
\* quantity asked for and appends nothing
PostAddsToExisting(body) ==
  \E i \in {ExistingItem(CartItems(session), body.product_id)} :
    (i # 0 /\ response'.http = 200) =>
      /\ Len(session'.cart) = Len(session.cart)
      /\ session'.cart[i].quantity = session.cart[i].quantity + Requested(body).n
      /\ \A k \in DOMAIN session.cart : k # i => session'.cart[k] = session.cart[k]

\* a DELETE removes the entries with the product_id of the body and no other
DeleteRemovesProduct(body) ==
  /\ response'.http = 200
  /\ CartItems(session') =
       SelectSeq(CartItems(session), LAMBDA item : item.product_id # body.product_id)

\* the parts of C19 the code keeps: one entry per product_id value after every
\* request, a POST for a product in the cart adds to its entry, a DELETE removes
\* the entries of that product_id and no other
CartEntriesPerProduct ==
  [][/\ OneEntryPerProduct(CartItems(session'))
     /\ response'.http # 0 /\ response'.message = "Product added to cart" =>
          \A body \in [product_id : ProductIdValues, quantity : QuantityValues],
             env \in CartEnvironments :
            CartRequest("POST", body, env.find, env.price, env.propagate) =>
              PostAddsToExisting(body)
     /\ response'.http # 0 /\ response'.message = "Product removed from cart" =>
          \A body \in [product_id : ProductIdValues, quantity : {Json("absent", "")}] :
            CartRequest("DELETE", body, "ok", 10, FALSE) => DeleteRemovesProduct(body)
    ]_vars

\* C19: after any sequence of requests to /api/cart the cart holds at most one
\* entry per product_id value; a POST for a product_id in the cart adds the
\* quantity to its entry, a POST for an unknown product answers 404 and leaves
\* the cart unchanged, and a DELETE removes the entries of that product_id only.
C19_OneEntryPerProduct ==
  [][/\ OneEntryPerProduct(CartItems(session'))
     /\ \A body \in [product_id : ProductIdValues, quantity : QuantityValues],
           env \in CartEnvironments :
          CartRequest("POST", body, env.find, env.price, env.propagate) =>
            /\ PostAddsToExisting(body)
            /\ (UnknownProduct(body) /\ Requested(body).ok /\ env.find = "ok") =>
                 /\ response'.http = 404
                 /\ CartItems(session') = CartItems(session)
     /\ \A body \in [product_id : ProductIdValues, quantity : {Json("absent", "")}] :
          CartRequest("DELETE", body, "ok", 10, FALSE) => DeleteRemovesProduct(body)
    ]_vars

====
